---- MODULE Spec2Model ----
(***************************************************************************)
(* Model of the KPI / analytics core of the maintenance analytics          *)
(* dashboard: src/kpi_calculations.py and src/advanced_analytics.py.       *)
(*                                                                         *)
(* The core is a library of functions over tables (pandas DataFrames).     *)
(* A table is a sequence of records, one record per row, a column is a     *)
(* record field.  The caller loads rows into a table and then calls the    *)
(* operations; the last call and what it returned is kept in `ret`.        *)
(*                                                                         *)
(* Numbers.  The code computes with binary floating point; the model       *)
(* computes the same expressions exactly, on rationals [n, d] in lowest    *)
(* terms.  A value the code rounds with round(x, k) is kept as the integer *)
(* round(x, k) * 10^k (a percentage rounded to 2 decimals is an integer    *)
(* number of hundredths of a percent), rounded half-to-even as Python and  *)
(* numpy do.                                                               *)
(***************************************************************************)
EXTENDS Integers, Sequences, FiniteSets

VARIABLES
    wo,        \* df_wo: the work-order table
    sensor,    \* df_sensor: the sensor-reading table
    costs,     \* df_costs: the vendor cost fact table
    budget,    \* df_budget: the budget-vs-actual fact table
    vendor,    \* df_vendor: the vendor table
    products,  \* df_products: the products dimension
    trans,     \* df_trans: the inventory transaction table
    prod,      \* df_prod: the daily production table
    ret        \* the last call: [op, ...arguments, result]

vars == <<wo, sensor, costs, budget, vendor, products, trans, prod, ret>>

(***************************************************************************)
(* Bounds of the model.                                                    *)
(***************************************************************************)
MaxOrders == 2      \* rows of df_wo
MaxDate == 2        \* work-order dates are day numbers 1..MaxDate
MaxIds == 2         \* length of the equipment_ids argument

MaxReadings == 2    \* rows of df_sensor
MaxCostRows == 2    \* rows of df_costs
MaxBudgetRows == 2  \* rows of df_budget
MaxVendors == 2     \* rows of df_vendor
MaxScheduled == 3   \* rows of df_wo when it carries a ScheduledDate
MaxProducts == 2    \* rows of df_products
MaxTransactions == 2 \* rows of df_trans
MaxLedgerLines == 7 \* rows of df_budget when it is a ledger by month
MaxProdRows == 2    \* rows of df_prod
MaxCodedOrders == 5 \* work orders of the root-cause analysis

EquipmentIDs == {1, 2}                 \* equipment E1, E2
MaintenanceTypes == {"Preventive", "Breakdown"}
DowntimeValues == {2, 10, 24}          \* DowntimeHours of a row
CostValues == {50}                     \* TotalCost of a row
DayArgs == {0, 1, 5, 10}                 \* the days argument of a direct call
CountArgs == {0, 1, 2}                 \* the equipment_count argument
Timestamps == {0, 6, 30}               \* Timestamp of a reading, in hours
Temperatures == {85, 95, 100}          \* Temperature_C of a reading
Vibrations == {350, 500, 600}          \* Vibration_mm_s, in hundredths
WindowArgs == {6, 24}                  \* the window_hours argument
VendorIDs == {1, 2}                    \* vendors V1, V2
ContractValues == {0, 100}             \* ContractValue of a cost row
PaymentValues == {0, 94, 95, 105, 106} \* ActualPayment of a cost row
CostCenters == {1, 2}                  \* CostCenter of a budget line
GLAccounts == {1, 2}                   \* GLAccount of a budget line
BudgetValues == {0, 100}               \* BudgetAmount of a budget line
ActualValues == {0, 100, 250}          \* ActualAmount of a budget line
Ratings == {0, 3000, 4555, 5000}       \* Rating, in thousandths
QualityScores == {0, 5000, 8730, 10000} \* QualityScore, in hundredths
DeliveryDelays == {0, 50, 55, 100, 150}   \* AvgDeliveryDelay, in tenths of a day

(***************************************************************************)
(* Arithmetic helpers: exact rationals and Python's rounding.              *)
(***************************************************************************)
Abs(x) == IF x < 0 THEN -x ELSE x

RECURSIVE GCD(_, _)
GCD(a, b) == IF b = 0 THEN a ELSE GCD(b, a % b)

\* The rational n/d (d # 0) in lowest terms with a positive denominator.
Frac(n, d) ==
    LET g == GCD(Abs(n), Abs(d))
        s == IF d < 0 THEN -1 ELSE 1
    IN [n |-> s * (n \div g), d |-> s * (d \div g)]

FracOfInt(i) == [n |-> i, d |-> 1]
FracAdd(a, b) == Frac(a.n * b.d + b.n * a.d, a.d * b.d)
FracLess(a, b) == a.n * b.d < b.n * a.d
FracLeq(a, b) == a.n * b.d <= b.n * a.d

\* n/d (d > 0) rounded to the nearest integer, ties to the even one.
RoundHalfEven(n, d) ==
    LET q == n \div d
        r == n % d
    IN IF 2 * r < d THEN q
       ELSE IF 2 * r > d THEN q + 1
       ELSE IF q % 2 = 0 THEN q ELSE q + 1

\* round(x, 2) and round(x, 1) of the rational x, in hundredths and in tenths.
Round2(x) == RoundHalfEven(100 * x.n, x.d)
Round1(x) == RoundHalfEven(10 * x.n, x.d)

(***************************************************************************)
(* Table helpers (pandas).                                                 *)
(***************************************************************************)
\* df[col].sum()
SumField(df, col) ==
    LET RECURSIVE S(_)
        S(i) == IF i = 0 THEN 0 ELSE df[i][col] + S(i - 1)
    IN S(Len(df))

\* df[df[col] == v]
WhereEq(df, col, v) == SelectSeq(df, LAMBDA r : r[col] = v)

\* the distinct values of a column
Values(df, col) == {df[i][col] : i \in DOMAIN df}

\* df[col].min(), df[col].max() of a non-empty table
MinOf(S) == CHOOSE x \in S : \A y \in S : x <= y
MaxOf(S) == CHOOSE x \in S : \A y \in S : x >= y

\* groupby sorts the group keys ascending
RECURSIVE SortedSeq(_)
SortedSeq(S) ==
    IF S = {} THEN <<>>
    ELSE LET m == MinOf(S) IN <<m>> \o SortedSeq(S \ {m})

\* all tables of at most n rows drawn from Rows
RECURSIVE TablesUpTo(_, _)
TablesUpTo(Rows, n) ==
    IF n = 0 THEN {<<>>}
    ELSE LET T == TablesUpTo(Rows, n - 1)
         IN T \cup {Append(t, r) : t \in {u \in T : Len(u) = n - 1}, r \in Rows}

(***************************************************************************)
(* MAINTENANCE KPIs (src/kpi_calculations.py)                              *)
(***************************************************************************)
\* One group's MTTR row: mean, count and sum of DowntimeHours.
\* A row whose MTTR is the total, not the mean, of the downtime.
mttr_row_Total(k, g) ==
    [key |-> k,
     MTTR_Hours |-> FracOfInt(SumField(g, "DowntimeHours")),
     Breakdown_Count |-> Len(g),
     Total_Downtime |-> SumField(g, "DowntimeHours")]

mttr_row(k, g) ==
    [key |-> k,
     MTTR_Hours |-> Frac(SumField(g, "DowntimeHours"), Len(g)),
     Breakdown_Count |-> Len(g),
     Total_Downtime |-> SumField(g, "DowntimeHours")]

calculate_mttr(df_wo, group_by) ==
    LET breakdown_wo == WhereEq(df_wo, "MaintenanceType", "Breakdown")
        keys == SortedSeq(Values(breakdown_wo, group_by))
    IN IF breakdown_wo = <<>> THEN <<>>
       ELSE [i \in 1..Len(keys) |->
                mttr_row(keys[i], WhereEq(breakdown_wo, group_by, keys[i]))]

\* A mutant of mtbf_hours: the clip at 0 is forgotten.
mtbf_hours_NoClip(total_operating_hours, downtime, failure_count) ==
    Frac(total_operating_hours - downtime, failure_count)

\* MTBF = (Operating Time - Unplanned Downtime) / Failures, clipped at 0.
mtbf_hours(total_operating_hours, downtime, failure_count) ==
    LET raw == Frac(total_operating_hours - downtime, failure_count)
    IN IF raw.n < 0 THEN FracOfInt(0) ELSE raw

\* A mutant of mtbf_breakdown: the Breakdown filter is forgotten.
mtbf_breakdown_AllOrders(df_wo) == df_wo

\* The rows calculate_mtbf works on.
mtbf_breakdown(df_wo) == WhereEq(df_wo, "MaintenanceType", "Breakdown")

calculate_mtbf(df_wo, group_by, days) ==
    LET total_operating_hours == days * 24
        breakdown_wo == mtbf_breakdown(df_wo)
        keys == SortedSeq(Values(breakdown_wo, group_by))
        stats(k) ==
            LET g == WhereEq(breakdown_wo, group_by, k)
            IN [Failure_Count |-> Len(g),
                Total_Unplanned_Downtime |-> SumField(g, "DowntimeHours")]
    IN IF breakdown_wo = <<>> THEN <<>>
       ELSE [i \in 1..Len(keys) |->
                [key |-> keys[i],
                 MTBF_Hours |-> mtbf_hours(total_operating_hours,
                                    stats(keys[i]).Total_Unplanned_Downtime,
                                    stats(keys[i]).Failure_Count),
                 Failure_Count |-> stats(keys[i]).Failure_Count]]

\* A mutant of availability_downtime: only unplanned downtime is counted.
availability_downtime_BreakdownOnly(df_wo) ==
    SumField(WhereEq(df_wo, "MaintenanceType", "Breakdown"), "DowntimeHours")

\* total_downtime = df_wo['DowntimeHours'].sum()
availability_downtime(df_wo) == SumField(df_wo, "DowntimeHours")

\* A fallback of 0 %: no available hours read as no availability.
availability_fallback_ZeroPct ==
    [Availability_Pct |-> 0,
     Total_Downtime_Hours |-> 0,
     Total_Available_Hours |-> 0,
     Uptime_Hours |-> 0]

\* The fallback returned when total_available_hours == 0.
availability_fallback ==
    [Availability_Pct |-> 10000,
     Total_Downtime_Hours |-> 0,
     Total_Available_Hours |-> 0,
     Uptime_Hours |-> 0]

calculate_equipment_availability(df_wo, equipment_count, days) ==
    LET total_available_hours == equipment_count * days * 24
        total_downtime == availability_downtime(df_wo)
        availability_pct ==
            Frac((total_available_hours - total_downtime) * 100,
                 total_available_hours)
        uptime == total_available_hours - total_downtime
    IN IF total_available_hours = 0
       THEN availability_fallback
       ELSE [Availability_Pct |->
                 Round2(IF availability_pct.n < 0 THEN FracOfInt(0)
                        ELSE availability_pct),
             Total_Downtime_Hours |-> 100 * total_downtime,
             Total_Available_Hours |-> 100 * total_available_hours,
             Uptime_Hours |-> 100 * (IF uptime < 0 THEN 0 ELSE uptime)]

\* A share computed without the factor 100: a fraction, not a percentage.
mix_pct_Fraction(count, total) ==
    IF total > 0 THEN Round1(Frac(count, total)) ELSE 0

\* round((count / total) * 100, 1) if total > 0 else 0, in tenths of a percent.
mix_pct(count, total) ==
    IF total > 0 THEN Round1(Frac(count * 100, total)) ELSE 0

\* The mix whose Preventive_Cost is the cost of all the work orders.
calculate_maintenance_mix_CostOfAll(df_wo) ==
    LET total == Len(df_wo)
        prev == WhereEq(df_wo, "MaintenanceType", "Preventive")
        brk == WhereEq(df_wo, "MaintenanceType", "Breakdown")
        preventive == Len(prev)
        breakdown == Len(brk)
    IN [Preventive_Count |-> preventive,
        Breakdown_Count |-> breakdown,
        Preventive_Pct |-> mix_pct(preventive, total),
        Breakdown_Pct |-> mix_pct(breakdown, total),
        Preventive_Cost |-> SumField(df_wo, "TotalCost"),
        Breakdown_Cost |-> SumField(brk, "TotalCost"),
        Preventive_Downtime |-> SumField(prev, "DowntimeHours"),
        Breakdown_Downtime |-> SumField(brk, "DowntimeHours")]

calculate_maintenance_mix(df_wo) ==
    LET total == Len(df_wo)
        prev == WhereEq(df_wo, "MaintenanceType", "Preventive")
        brk == WhereEq(df_wo, "MaintenanceType", "Breakdown")
        preventive == Len(prev)
        breakdown == Len(brk)
    IN [Preventive_Count |-> preventive,
        Breakdown_Count |-> breakdown,
        Preventive_Pct |-> mix_pct(preventive, total),
        Breakdown_Pct |-> mix_pct(breakdown, total),
        Preventive_Cost |-> SumField(prev, "TotalCost"),
        Breakdown_Cost |-> SumField(brk, "TotalCost"),
        Preventive_Downtime |-> SumField(prev, "DowntimeHours"),
        Breakdown_Downtime |-> SumField(brk, "DowntimeHours")]

(***************************************************************************)
(* SUMMARY FUNCTIONS (src/kpi_calculations.py)                             *)
(***************************************************************************)
\* An optional table argument: None, or a table.
NoTable == [isNone |-> TRUE, rows |-> <<>>]
SomeTable(t) == [isNone |-> FALSE, rows |-> t]

\* A mutant of summary_days: the span is not made inclusive.
summary_days_Exclusive(df_wo) ==
    IF df_wo # <<>>
    THEN MaxOf(Values(df_wo, "Date")) - MinOf(Values(df_wo, "Date"))
    ELSE 365

\* Timeframe days: the inclusive span of the work-order dates, 365 when empty.
summary_days(df_wo) ==
    IF df_wo # <<>>
    THEN (MaxOf(Values(df_wo, "Date")) - MinOf(Values(df_wo, "Date"))) + 1
    ELSE 365

\* Equipment count: len(equipment_ids) when the list is given and non-empty
\* (None and [] are both the empty sequence here, the code treats them
\* alike), else the number of distinct EquipmentID values, 1 when empty.
summary_eq_count(df_wo, equipment_ids) ==
    IF equipment_ids # <<>>
    THEN Len(equipment_ids)
    ELSE IF df_wo # <<>> THEN Cardinality(Values(df_wo, "EquipmentID")) ELSE 1

\* A mutant of overall_mtbf: no failures gives 0.
overall_mtbf_ZeroWhenNone(total_period_hours, total_unplanned_downtime, failure_count) ==
    IF failure_count > 0
    THEN Frac(total_period_hours - total_unplanned_downtime, failure_count)
    ELSE FracOfInt(0)

\* MTBF = (Total Equipment * Period Hours - Unplanned Downtime) / Failures,
\* the total period hours when there is no failure.
overall_mtbf(total_period_hours, total_unplanned_downtime, failure_count) ==
    IF failure_count > 0
    THEN Frac(total_period_hours - total_unplanned_downtime, failure_count)
    ELSE FracOfInt(total_period_hours)

\* Overall MTTR: the mean Breakdown downtime, 0 when there is none.
overall_mttr(breakdown_wo) ==
    IF breakdown_wo # <<>>
    THEN Frac(SumField(breakdown_wo, "DowntimeHours"), Len(breakdown_wo))
    ELSE FracOfInt(0)

\* Stock health: the products at or below their reorder point.
\* The stock health with a strict comparison.
critical_stock_Strict(df_products) ==
    IF df_products.isNone THEN 0
    ELSE Len(SelectSeq(df_products.rows,
                       LAMBDA p : p.CurrentStock < p.ReorderPoint))

critical_stock(df_products) ==
    IF df_products.isNone THEN 0
    ELSE Len(SelectSeq(df_products.rows,
                       LAMBDA p : p.CurrentStock <= p.ReorderPoint))

\* The fields the code rounds to 2 decimals (Availability_Pct,
\* Total_Downtime, MTTR_Hours, MTBF_Hours) are in hundredths, Preventive_Pct
\* in tenths; the sums it returns unrounded (costs, Unplanned_Downtime,
\* Planned_Downtime) are in the units of the table.  df_trans is not read.
get_executive_summary(df_wo, df_trans, df_products, equipment_ids) ==
    LET days == summary_days(df_wo)
        eq_count == summary_eq_count(df_wo, equipment_ids)
        availability == calculate_equipment_availability(df_wo, eq_count, days)
        maintenance_mix == calculate_maintenance_mix(df_wo)
        breakdown_wo == WhereEq(df_wo, "MaintenanceType", "Breakdown")
        failure_count == Len(breakdown_wo)
        total_unplanned_downtime == SumField(breakdown_wo, "DowntimeHours")
        total_period_hours == eq_count * days * 24
    IN [Total_Maintenance_Cost |-> SumField(df_wo, "TotalCost"),
        Preventive_Cost |-> maintenance_mix.Preventive_Cost,
        Breakdown_Cost |-> maintenance_mix.Breakdown_Cost,
        Availability_Pct |-> availability.Availability_Pct,
        Total_Downtime |-> availability.Total_Downtime_Hours,
        Unplanned_Downtime |-> maintenance_mix.Breakdown_Downtime,
        Planned_Downtime |-> maintenance_mix.Preventive_Downtime,
        MTTR_Hours |-> Round2(overall_mttr(breakdown_wo)),
        MTBF_Hours |-> Round2(overall_mtbf(total_period_hours,
                                  total_unplanned_downtime, failure_count)),
        Total_Work_Orders |-> Len(df_wo),
        Breakdown_Count |-> maintenance_mix.Breakdown_Count,
        Preventive_Pct |-> maintenance_mix.Preventive_Pct,
        Critical_Stock_Items |-> critical_stock(df_products),
        Days_In_Period |-> days,
        Equipment_Count |-> eq_count]

(***************************************************************************)
(* PREDICTIVE MAINTENANCE (src/advanced_analytics.py)                      *)
(*                                                                         *)
(* Vibration is kept in hundredths of a mm/s, the probability in           *)
(* hundredths (0.6 is 60), Failure_Probability = round(prob * 100, 1) in   *)
(* tenths of a percent, Avg_Temp in tenths of a degree.                    *)
(***************************************************************************)
TempCritical == 95        \* avg_temp > 95
TempHigh == 85            \* avg_temp > 85
VibrationExcessive == 500 \* max_vibration > 5.0
VibrationHigh == 350      \* max_vibration > 3.5
ProbCap == 99             \* min(prob, 0.99)

\* A mutant of recent_readings: the cutoff itself is inside the window.
recent_readings_Inclusive(df_sensor, window_hours) ==
    IF df_sensor = <<>> THEN <<>>
    ELSE LET latest_ts == MaxOf(Values(df_sensor, "Timestamp"))
             cutoff_ts == latest_ts - window_hours
         IN SelectSeq(df_sensor, LAMBDA r : r.Timestamp >= cutoff_ts)

\* The readings later than the cutoff, window_hours before the latest
\* timestamp of the whole table.  (On an empty table latest_ts is NaT, every
\* comparison with it is False, and no reading is kept.)
recent_readings(df_sensor, window_hours) ==
    IF df_sensor = <<>> THEN <<>>
    ELSE LET latest_ts == MaxOf(Values(df_sensor, "Timestamp"))
             cutoff_ts == latest_ts - window_hours
         IN SelectSeq(df_sensor, LAMBDA r : r.Timestamp > cutoff_ts)

\* A mutant of capped_prob: the cap is forgotten.
capped_prob_NoCap(prob) == prob

\* prob = min(prob, 0.99)
capped_prob(prob) == IF prob < ProbCap THEN prob ELSE ProbCap

\* The label of the excessive-vibration rule; prob is the score after the
\* rule has added its 0.5.
vibration_insight(insight, prob) ==
    IF prob > 0 THEN insight \o " + Excessive Vibration"
    ELSE "Excessive Vibration Detected"

\* The heuristics: the score (capped) and the label of one equipment, from
\* its average temperature (a rational) and its maximum vibration.
failure_heuristics(avg_temp, max_vibration) ==
    LET t == IF FracLess(FracOfInt(TempCritical), avg_temp)
             THEN [prob |-> 60, insight |-> "Critical Overheating Detected"]
             ELSE IF FracLess(FracOfInt(TempHigh), avg_temp)
             THEN [prob |-> 30, insight |-> "High Operating Temperature"]
             ELSE [prob |-> 0, insight |-> "Normal Operation"]
        v == IF max_vibration > VibrationExcessive
             THEN [prob |-> t.prob + 50,
                   insight |-> vibration_insight(t.insight, t.prob + 50)]
             ELSE IF max_vibration > VibrationHigh
             THEN [prob |-> t.prob + 20, insight |-> t.insight]
             ELSE t
    IN [prob |-> capped_prob(v.prob), insight |-> v.insight]

\* The status with thresholds that include the score 0.6 and 0.3.
failure_status_Inclusive(prob) ==
    IF prob >= 60 THEN "Critical"
    ELSE IF prob >= 30 THEN "Warning" ELSE "Healthy"

failure_status(prob) ==
    IF prob > 60 THEN "Critical"
    ELSE IF prob > 30 THEN "Warning" ELSE "Healthy"

predict_failure_probability(df_sensor, window_hours) ==
    LET recent == recent_readings(df_sensor, window_hours)
        ids == SortedSeq(Values(recent, "EquipmentID"))
        row(eq_id) ==
            LET group == WhereEq(recent, "EquipmentID", eq_id)
                avg_temp == Frac(SumField(group, "Temperature_C"), Len(group))
                max_vibration == MaxOf(Values(group, "Vibration_mm_s"))
                h == failure_heuristics(avg_temp, max_vibration)
            IN [EquipmentID |-> eq_id,
                Avg_Temp |-> Round1(avg_temp),
                Max_Vibration |-> max_vibration,
                Failure_Probability |-> 10 * h.prob,
                Insight |-> h.insight,
                Status |-> failure_status(h.prob)]
    IN [i \in 1..Len(ids) |-> row(ids[i])]

(***************************************************************************)
(* COST & VENDOR KPIs (src/kpi_calculations.py)                            *)
(*                                                                         *)
(* A float the code divides is a finite rational or one of the IEEE        *)
(* values a division by zero gives: pandas divides x / 0 to inf or -inf    *)
(* and 0 / 0 to NaN and raises nothing.                                    *)
(***************************************************************************)
Num(x) == [kind |-> "num", val |-> x]
PosInf == [kind |-> "inf", val |-> FracOfInt(0)]
NegInf == [kind |-> "-inf", val |-> FracOfInt(0)]
NaN == [kind |-> "nan", val |-> FracOfInt(0)]

\* Series / Series of numbers a and b
FloatDiv(a, b) ==
    IF b # 0 THEN Num(Frac(a, b))
    ELSE IF a > 0 THEN PosInf
    ELSE IF a < 0 THEN NegInf ELSE NaN

\* x * 100
FloatTimes100(x) ==
    IF x.kind = "num" THEN Num(Frac(100 * x.val.n, x.val.d)) ELSE x

\* x > c and x < c for a float x and an integer c; every comparison with NaN
\* is False.
FloatGreater(x, c) ==
    \/ x.kind = "inf"
    \/ x.kind = "num" /\ FracLess(FracOfInt(c), x.val)
FloatLess(x, c) ==
    \/ x.kind = "-inf"
    \/ x.kind = "num" /\ FracLess(x.val, FracOfInt(c))

\* 100 - abs(x)
HundredMinusAbs(x) ==
    IF x.kind = "num" THEN Num(Frac(100 * x.val.d - Abs(x.val.n), x.val.d))
    ELSE IF x.kind = "nan" THEN NaN ELSE NegInf

\* The status with inclusive thresholds: exactly 5 % is already over budget.
get_variance_status_Inclusive(pct) ==
    IF FloatGreater(pct, 5) \/ pct = Num(FracOfInt(5)) THEN "Over Budget"
    ELSE IF FloatLess(pct, -5) \/ pct = Num(FracOfInt(-5)) THEN "Under Budget"
    ELSE "On Track"

get_variance_status(pct) ==
    IF FloatGreater(pct, 5) THEN "Over Budget"
    ELSE IF FloatLess(pct, -5) THEN "Under Budget"
    ELSE "On Track"

\* variance_pct = (Variance / Total) * 100, with no guard on Total
variance_pct(variance, total) == FloatTimes100(FloatDiv(variance, total))

calculate_payment_variance(df_costs) ==
    LET keys == SortedSeq(Values(df_costs, "VendorID"))
        row(k) ==
            LET g == WhereEq(df_costs, "VendorID", k)
                Total_Contract == SumField(g, "ContractValue")
                Total_Actual == SumField(g, "ActualPayment")
                pct == variance_pct(Total_Actual - Total_Contract, Total_Contract)
            IN [VendorID |-> k,
                Total_Contract |-> Total_Contract,
                Total_Actual |-> Total_Actual,
                Transaction_Count |-> Len(g),
                Variance |-> Total_Actual - Total_Contract,
                Variance_Pct |-> pct,
                Status |-> get_variance_status(pct)]
    IN [i \in 1..Len(keys) |-> row(keys[i])]

\* groupby(['CostCenter', 'GLAccount']) sorts the key pairs lexicographically
RECURSIVE SortedPairs(_)
SortedPairs(S) ==
    IF S = {} THEN <<>>
    ELSE LET m == CHOOSE x \in S :
                     \A y \in S : x[1] < y[1] \/ (x[1] = y[1] /\ x[2] <= y[2])
         IN <<m>> \o SortedPairs(S \ {m})

calculate_budget_adherence(df_budget) ==
    LET keys == SortedPairs({<<df_budget[i].CostCenter, df_budget[i].GLAccount>> :
                                i \in DOMAIN df_budget})
        row(k) ==
            LET g == SelectSeq(df_budget,
                        LAMBDA r : r.CostCenter = k[1] /\ r.GLAccount = k[2])
                Total_Budget == SumField(g, "BudgetAmount")
                Total_Actual == SumField(g, "ActualAmount")
                pct == variance_pct(Total_Actual - Total_Budget, Total_Budget)
            IN [CostCenter |-> k[1],
                GLAccount |-> k[2],
                Total_Budget |-> Total_Budget,
                Total_Actual |-> Total_Actual,
                Variance |-> Total_Actual - Total_Budget,
                Variance_Pct |-> pct,
                Adherence_Pct |-> HundredMinusAbs(pct)]
    IN [i \in 1..Len(keys) |-> row(keys[i])]

(***************************************************************************)
(* VENDOR RELIABILITY SCORING (src/advanced_analytics.py)                  *)
(*                                                                         *)
(* Rating is kept in thousandths, QualityScore in hundredths and           *)
(* AvgDeliveryDelay in tenths of a day; DelayScore and RawScore are in     *)
(* thousandths of a point and CompositeScore, rounded to 1 decimal, in     *)
(* tenths of a point.                                                      *)
(***************************************************************************)
\* A mutant of delay_score: the clip at 0 is forgotten.
delay_score_NoClip(delay) == 200 * (100 - delay)

\* DelayScore = (10 - AvgDeliveryDelay).clip(lower=0) * 2
delay_score(delay) == IF 100 - delay < 0 THEN 0 ELSE 200 * (100 - delay)

\* RawScore = Rating * 10 + QualityScore * 0.4 + DelayScore
raw_score(rating, quality, delay) ==
    10 * rating + 4 * quality + delay_score(delay)

\* CompositeScore = RawScore.clip(upper=100).round(1)
composite_score(raw) ==
    RoundHalfEven(IF raw > 100000 THEN 100000 ELSE raw, 100)

\* get_tier with exclusive thresholds: a score of exactly 90.0, 80.0 or 70.0
\* falls into the tier below.
get_tier_Strict(score) ==
    IF score > 900 THEN "Strategic Partner"
    ELSE IF score > 800 THEN "Preferred"
    ELSE IF score > 700 THEN "Standard"
    ELSE "At Risk"

get_tier(score) ==
    IF score >= 900 THEN "Strategic Partner"
    ELSE IF score >= 800 THEN "Preferred"
    ELSE IF score >= 700 THEN "Standard"
    ELSE "At Risk"

calculate_vendor_score(df_vendor) ==
    [i \in DOMAIN df_vendor |->
        LET r == df_vendor[i]
            DelayScore == delay_score(r.AvgDeliveryDelay)
            RawScore == raw_score(r.Rating, r.QualityScore, r.AvgDeliveryDelay)
            CompositeScore == composite_score(RawScore)
        IN [VendorID |-> r.VendorID,
            Rating |-> r.Rating,
            AvgDeliveryDelay |-> r.AvgDeliveryDelay,
            QualityScore |-> r.QualityScore,
            DelayScore |-> DelayScore,
            RawScore |-> RawScore,
            CompositeScore |-> CompositeScore,
            VendorTier |-> get_tier(CompositeScore)]]

(***************************************************************************)
(* Schedule compliance (kpi_calculations.py, lines 112-150).  Dates are    *)
(* day numbers (the data holds dates without a time of day); a row with no *)
(* schedule ('' in the generated data, NaN once read from CSV) has         *)
(* ScheduledDate = NoDate.                                                 *)
(***************************************************************************)
NoDate == 0

\* Late without the one-day buffer.
is_late_NoBuffer(date, scheduled) == date > scheduled

\* IsLate = Date > ScheduledDate + Timedelta(days=1)
is_late(date, scheduled) == date > scheduled + 1

calculate_schedule_compliance(df_wo) ==
    LET scheduled_wo ==
            SelectSeq(df_wo, LAMBDA r : /\ r.MaintenanceType = "Preventive"
                                        /\ r.ScheduledDate # NoDate)
        late_count ==
            Len(SelectSeq(scheduled_wo,
                          LAMBDA r : is_late(r.Date, r.ScheduledDate)))
        total == Len(scheduled_wo)
        ontime == total - late_count
    IN IF scheduled_wo = <<>>
       THEN [Compliance_Pct |-> 1000, Late_Count |-> 0, OnTime_Count |-> 0,
             Total_Scheduled |-> 0]
       ELSE [Compliance_Pct |-> Round1(Frac(ontime * 100, total)),
             Late_Count |-> late_count,
             OnTime_Count |-> ontime,
             Total_Scheduled |-> total]

(***************************************************************************)
(* INVENTORY KPIs (src/kpi_calculations.py, lines 182-283).  A product row *)
(* carries ProductID, CurrentStock, ReorderPoint, MOQ and UnitCost (the    *)
(* ProductName is carried through unchanged and left out); a transaction   *)
(* row carries Date (a day number), ProductID, Quantity (negative for an   *)
(* issue in the generated data), Type and UnitCost.                        *)
(***************************************************************************)
\* df_trans[df_trans['Type'] == 'Issue']
issues_of(df_trans) == WhereEq(df_trans, "Type", "Issue")

\* lambda x: abs(x.sum()) over the Quantity of one product's issues
total_quantity(issues, pid) ==
    Abs(SumField(WhereEq(issues, "ProductID", pid), "Quantity"))

\* The issue value netted over the signed quantities.
issue_value_Net(issues, pid) ==
    LET g == WhereEq(issues, "ProductID", pid)
        RECURSIVE S(_)
        S(i) == IF i = 0 THEN 0
                ELSE g[i].Quantity * g[i].UnitCost + S(i - 1)
    IN Abs(S(Len(g)))

\* Issue_Value = abs(Quantity) * UnitCost of the transaction, summed per product
issue_value(issues, pid) ==
    LET g == WhereEq(issues, "ProductID", pid)
        RECURSIVE S(_)
        S(i) == IF i = 0 THEN 0
                ELSE Abs(g[i].Quantity) * g[i].UnitCost + S(i - 1)
    IN S(Len(g))

\* np.where(Avg_Inventory_Value > 0, Issue_Value / Avg_Inventory_Value, 0)
turnover_ratio(value, inventory_value) ==
    IF inventory_value > 0 THEN Frac(value, inventory_value) ELSE FracOfInt(0)

\* One row per row of df_products (left merge); a product without issues has
\* no row in issue_totals and gets 0 from fillna(0).
calculate_inventory_turnover(df_trans, df_products) ==
    LET issues == issues_of(df_trans)
        has_issues(pid) == WhereEq(issues, "ProductID", pid) # <<>>
    IN [k \in 1..Len(df_products) |->
            LET p == df_products[k]
                Total_Issues == IF has_issues(p.ProductID)
                                THEN total_quantity(issues, p.ProductID)
                                ELSE 0
                Issue_Value == IF has_issues(p.ProductID)
                               THEN issue_value(issues, p.ProductID)
                               ELSE 0
                Avg_Inventory_Value == p.CurrentStock * p.UnitCost
            IN [ProductID |-> p.ProductID,
                Total_Issues |-> Total_Issues,
                Turnover_Ratio |->
                    turnover_ratio(Issue_Value, Avg_Inventory_Value)]]

\* (issues['Date'].max() - issues['Date'].min()).days or 1, of a table with
\* at least one issue (without one no group uses it)
date_range(issues) ==
    LET span == MaxOf(Values(issues, "Date")) - MinOf(Values(issues, "Date"))
    IN IF span = 0 THEN 1 ELSE span

\* Avg_Daily_Usage after the merge: Total_Usage / date_range, 0 from fillna(0)
\* for a product without issues
avg_daily_usage(issues, pid) ==
    IF WhereEq(issues, "ProductID", pid) = <<>> THEN FracOfInt(0)
    ELSE Frac(total_quantity(issues, pid), date_range(issues))

\* Coverage that also reports an empty stock as infinite.
coverage_days_EmptyStockInf(stock, usage) ==
    IF FracLess(FracOfInt(0), usage) /\ stock > 0
    THEN Num(Frac(stock * usage.d, usage.n))
    ELSE PosInf

\* np.where(Avg_Daily_Usage > 0, CurrentStock / Avg_Daily_Usage, np.inf)
coverage_days(stock, usage) ==
    IF FracLess(FracOfInt(0), usage)
    THEN Num(Frac(stock * usage.d, usage.n))
    ELSE PosInf

\* The thresholds read as exclusive.
get_coverage_status_Strict(days) ==
    IF days = PosInf THEN "No Usage"
    ELSE IF FracLess(days.val, FracOfInt(7)) THEN "Critical"
    ELSE IF FracLess(days.val, FracOfInt(30)) THEN "Warning"
    ELSE "Healthy"

get_coverage_status(days) ==
    IF days = PosInf THEN "No Usage"
    ELSE IF FracLeq(days.val, FracOfInt(7)) THEN "Critical"
    ELSE IF FracLeq(days.val, FracOfInt(30)) THEN "Warning"
    ELSE "Healthy"

calculate_stock_coverage_days(df_trans, df_products) ==
    LET issues == issues_of(df_trans)
    IN [k \in 1..Len(df_products) |->
            LET p == df_products[k]
                usage == avg_daily_usage(issues, p.ProductID)
                days == coverage_days(p.CurrentStock, usage)
            IN [ProductID |-> p.ProductID,
                CurrentStock |-> p.CurrentStock,
                Avg_Daily_Usage |-> usage,
                Coverage_Days |-> days,
                Coverage_Status |-> get_coverage_status(days)]]

\* The order quantity without the minimum order quantity.
reorder_qty_ShortageOnly(shortage, moq) == shortage

\* alerts[['Shortage_Qty', 'MOQ']].max(axis=1)
reorder_qty(shortage, moq) == IF shortage >= moq THEN shortage ELSE moq

\* The alert rows keep the columns of df_products and gain three.
reorder_alert(p) ==
    LET Shortage_Qty == p.ReorderPoint - p.CurrentStock
        Reorder_Qty == reorder_qty(Shortage_Qty, p.MOQ)
        added == {"Shortage_Qty", "Reorder_Qty", "Estimated_Cost"}
    IN [c \in DOMAIN p \cup added |->
           CASE c = "Shortage_Qty" -> Shortage_Qty
             [] c = "Reorder_Qty" -> Reorder_Qty
             [] c = "Estimated_Cost" -> Reorder_Qty * p.UnitCost
             [] OTHER -> p[c]]

get_reorder_alerts(df_products) ==
    LET alerts == SelectSeq(df_products,
                            LAMBDA p : p.CurrentStock <= p.ReorderPoint)
    IN [k \in 1..Len(alerts) |-> reorder_alert(alerts[k])]

(***************************************************************************)
(* COST FORECAST (src/advanced_analytics.py, lines 71-112).  Dates are     *)
(* month numbers.  The standard deviation is kept as its square, the       *)
(* variance; a bound forecast +/- std_dev is rounded exactly, from the     *)
(* integer square root.  Amounts are floats in the code: a mean or a       *)
(* deviation of no value is NaN.                                           *)
(***************************************************************************)
\* The largest r with r * r <= n, for 0 <= n < 2^31.
ISqrt(n) ==
    LET RECURSIVE Between(_, _)
        Between(lo, hi) ==
            IF lo = hi THEN lo
            ELSE LET mid == (lo + hi + 1) \div 2
                 IN IF mid * mid <= n THEN Between(mid, hi)
                    ELSE Between(lo, mid - 1)
    IN Between(0, IF n < 46340 THEN n ELSE 46340)

\* round(f + sqrt(v), 2) in hundredths, for rationals f and v >= 0
RoundPlusRoot(f, v) ==
    LET F == Frac(100 * f.n, f.d)
        V == Frac(10000 * v.n, v.d)
        M == 4 * F.d * F.d * V.n * V.d
        m == ISqrt(M)
        A == (2 * F.n + F.d) * V.d
        D == 2 * F.d * V.d
        k == (A + m) \div D
    IN IF m * m = M /\ (A + m) % D = 0 /\ k % 2 = 1 THEN k - 1 ELSE k

\* round(f - sqrt(v), 2) in hundredths
RoundMinusRoot(f, v) == -RoundPlusRoot([n |-> -f.n, d |-> f.d], v)

\* pd.NaT: the latest date of an empty table
NaT == 0

\* df.groupby('Date')['ActualAmount'].sum().sort_index(): the totals by date
monthly_costs(df) ==
    LET dates == SortedSeq(Values(df, "Date"))
    IN [k \in 1..Len(dates) |->
            [Date |-> dates[k],
             ActualAmount |->
                 SumField(WhereEq(df, "Date", dates[k]), "ActualAmount")]]

\* monthly_costs.tail(6)
tail6(monthly) ==
    IF Len(monthly) <= 6 THEN monthly
    ELSE SubSeq(monthly, Len(monthly) - 5, Len(monthly))

\* Series.mean(): NaN for no value
mean(w) ==
    IF w = <<>> THEN NaN ELSE Num(Frac(SumField(w, "ActualAmount"), Len(w)))

\* The sum of the squares of ActualAmount.
sum_squares(w) ==
    LET RECURSIVE S(_)
        S(i) == IF i = 0 THEN 0
                ELSE w[i].ActualAmount * w[i].ActualAmount + S(i - 1)
    IN S(Len(w))

\* The population variance: divisor n.
variance_Population(w) ==
    LET n == Len(w)
        s == SumField(w, "ActualAmount")
    IN IF n = 0 THEN NaN ELSE Num(Frac(n * sum_squares(w) - s * s, n * n))

\* The square of Series.std(): pandas divides by n - 1 (ddof = 1), and the
\* deviation of fewer than two values is NaN.
variance(w) ==
    LET n == Len(w)
        s == SumField(w, "ActualAmount")
    IN IF n < 2 THEN NaN
       ELSE Num(Frac(n * sum_squares(w) - s * s, n * (n - 1)))

\* One row of the forecast: i months after the last date, 2 % more a month.
forecast_row(last_date, avg_cost, var, i) ==
    LET forecast == Frac(avg_cost.val.n * (50 + i), avg_cost.val.d * 50)
        bound(k) == IF avg_cost.kind = "num" /\ var.kind = "num"
                    THEN Num(Frac(k, 100)) ELSE NaN
    IN [Date |-> IF last_date = NaT THEN NaT ELSE last_date + i,
        ForecastAmount |-> IF avg_cost.kind = "num"
                           THEN Num(Frac(Round2(forecast), 100)) ELSE NaN,
        LowerBound |-> bound(RoundMinusRoot(forecast, var.val)),
        UpperBound |-> bound(RoundPlusRoot(forecast, var.val))]

forecast_maintenance_costs(df_budget, months_ahead) ==
    LET monthly == monthly_costs(df_budget)
        last_6_months == tail6(monthly)
        avg_cost == mean(last_6_months)
        var == variance(last_6_months)
        last_date == IF monthly = <<>> THEN NaT
                     ELSE monthly[Len(monthly)].Date
    IN [i \in 1..months_ahead |->
            forecast_row(last_date, avg_cost, var, i)]

(***************************************************************************)
(* OEE and the planned share (src/kpi_calculations.py, lines 440-500).  A  *)
(* production row carries OperatingHours, TotalPartsProduced,              *)
(* GoodPartsProduced and IdealCycleTime_s; the four results are rounded to *)
(* 2 decimals and kept in hundredths.                                      *)
(***************************************************************************)
FracMul(a, b) == Frac(a.n * b.n, a.d * b.d)

\* Performance without the cap at 100 %.
capped_performance_NoCap(performance) == performance

\* performance = min(performance, 1.0)
capped_performance(performance) ==
    IF FracLess(FracOfInt(1), performance) THEN FracOfInt(1) ELSE performance

calculate_oee(df_prod) ==
    LET total_scheduled_hours == Len(df_prod) * 24
        total_operating_hours == SumField(df_prod, "OperatingHours")
        availability ==
            IF total_scheduled_hours > 0
            THEN Frac(total_operating_hours, total_scheduled_hours)
            ELSE FracOfInt(0)
        total_parts == SumField(df_prod, "TotalPartsProduced")
        avg_ideal_cycle_time_s ==
            Frac(SumField(df_prod, "IdealCycleTime_s"), Len(df_prod))
        potential_parts ==
            IF avg_ideal_cycle_time_s.n > 0
            THEN Frac(total_operating_hours * 3600 * avg_ideal_cycle_time_s.d,
                      avg_ideal_cycle_time_s.n)
            ELSE FracOfInt(0)
        performance ==
            capped_performance(
                IF potential_parts.n > 0
                THEN Frac(total_parts * potential_parts.d, potential_parts.n)
                ELSE FracOfInt(0))
        good_parts == SumField(df_prod, "GoodPartsProduced")
        quality == IF total_parts > 0 THEN Frac(good_parts, total_parts)
                   ELSE FracOfInt(0)
        oee == FracMul(FracMul(FracMul(availability, performance), quality),
                       FracOfInt(100))
    IN IF df_prod = <<>>
       THEN [OEE_Pct |-> 0, Availability_Component |-> 0,
             Performance_Component |-> 0, Quality_Component |-> 0]
       ELSE [OEE_Pct |-> Round2(oee),
             Availability_Component |->
                 Round2(FracMul(availability, FracOfInt(100))),
             Performance_Component |->
                 Round2(FracMul(performance, FracOfInt(100))),
             Quality_Component |-> Round2(FracMul(quality, FracOfInt(100)))]

\* The planned share rounded to 1 decimal only.
calculate_planned_maintenance_percentage_OneDecimal(df_wo) ==
    LET planned == Len(WhereEq(df_wo, "MaintenanceType", "Preventive"))
        total == Len(df_wo)
    IN IF total = 0 THEN 10000
       ELSE 10 * Round1(Frac(planned * 100, total))

\* The counts are counts of WorkOrderID, the key every row carries.
calculate_planned_maintenance_percentage(df_wo) ==
    LET planned == Len(WhereEq(df_wo, "MaintenanceType", "Preventive"))
        total == Len(df_wo)
    IN IF total = 0 THEN 10000
       ELSE Round2(Frac(planned * 100, total))

(***************************************************************************)
(* The failure root causes (src/advanced_analytics.py, lines 153-163).     *)
(* value_counts counts the codes that are not missing and sorts the counts *)
(* in descending order; the order of codes of equal count is not fixed by  *)
(* pandas, so the result is any of the orders with non-increasing counts.  *)
(* A result is a sequence of [FailureCode, count], the index and the value *)
(* of the Series.                                                          *)
(***************************************************************************)
NoCode == "NaN"    \* the missing FailureCode

\* All work orders instead of the Breakdown ones.
breakdown_wo_AllOrders(df_wo) == df_wo

breakdown_wo(df_wo) == WhereEq(df_wo, "MaintenanceType", "Breakdown")

value_counts(rows) ==
    LET codes == {rows[i].FailureCode : i \in DOMAIN rows} \ {NoCode}
        count(c) == Cardinality({i \in DOMAIN rows : rows[i].FailureCode = c})
        orders == {r \in [1..Cardinality(codes) -> codes] :
                      /\ \A i, j \in DOMAIN r : r[i] = r[j] => i = j
                      /\ \A i, j \in DOMAIN r :
                            i < j => count(r[i]) >= count(r[j])}
    IN {[i \in DOMAIN r |-> [FailureCode |-> r[i], count |-> count(r[i])]] :
           r \in orders}

\* The set of the results get_failure_root_cause may return.
get_failure_root_cause(df_wo) ==
    IF breakdown_wo(df_wo) = <<>> THEN {<<>>}
    ELSE value_counts(breakdown_wo(df_wo))

(***************************************************************************)
(* The derived stock status (src/preprocess_data.py, lines 44-54): the     *)
(* preprocessing adds the column 'Stock Status' to every product row.      *)
(***************************************************************************)
get_stock_status(row) ==
    IF row.CurrentStock <= row.ReorderPoint THEN "Critical"
    ELSE IF row.CurrentStock <= row.SafetyStock THEN "Stockout Risk"
    ELSE "Healthy"

process_products(row) ==
    [c \in DOMAIN row \cup {"Stock Status"} |->
        IF c = "Stock Status" THEN get_stock_status(row) ELSE row[c]]

(***************************************************************************)
(* Tables that lack columns.  A DataFrame has a set of columns, also when  *)
(* it has no row; df[c] and groupby(c) raise KeyError(c) when c is not a   *)
(* column, agg raises one KeyError for all the columns it does not find.   *)
(* Nothing in the core catches an exception, so a call ends either with a  *)
(* raised error and no value, or with a value.                             *)
(***************************************************************************)
WorkOrderColumns ==
    {"WorkOrderID", "EquipmentID", "Date", "MaintenanceType",
     "DowntimeHours", "TotalCost"}

\* df_wo.drop(columns = missing); WorkOrderID is the position of the row.
drop(df_wo, missing) ==
    [columns |-> WorkOrderColumns \ missing,
     rows |-> [i \in DOMAIN df_wo |->
                  [c \in DOMAIN df_wo[i] \ missing |-> df_wo[i][c]]]]

KeyError(key) == [raised |-> TRUE, error |-> "KeyError", key |-> key]
Returned(value) == [raised |-> FALSE, value |-> value]

\* MTTR that looks for all its columns before it filters.
calculate_mttr_frame_Eager(df, group_by) ==
    LET needed == {"MaintenanceType", group_by, "DowntimeHours", "WorkOrderID"}
    IN IF needed \ df.columns # {} THEN KeyError(needed \ df.columns)
       ELSE Returned(calculate_mttr(df.rows, group_by))

\* calculate_mttr, lines 28-39: the filter reads MaintenanceType; the early
\* return at line 30 comes before groupby and agg read anything else.
calculate_mttr_frame(df, group_by) ==
    IF "MaintenanceType" \notin df.columns
    THEN KeyError({"MaintenanceType"})
    ELSE IF WhereEq(df.rows, "MaintenanceType", "Breakdown") = <<>>
    THEN Returned(<<>>)
    ELSE IF group_by \notin df.columns
    THEN KeyError({group_by})
    ELSE IF {"DowntimeHours", "WorkOrderID"} \ df.columns # {}
    THEN KeyError({"DowntimeHours", "WorkOrderID"} \ df.columns)
    ELSE Returned(calculate_mttr(df.rows, group_by))

\* calculate_maintenance_mix, lines 160-174: MaintenanceType is read at
\* line 160, TotalCost at line 171, DowntimeHours at line 173, on every
\* table.
calculate_maintenance_mix_frame(df) ==
    IF "MaintenanceType" \notin df.columns
    THEN KeyError({"MaintenanceType"})
    ELSE IF "TotalCost" \notin df.columns
    THEN KeyError({"TotalCost"})
    ELSE IF "DowntimeHours" \notin df.columns
    THEN KeyError({"DowntimeHours"})
    ELSE Returned(calculate_maintenance_mix(df.rows))

(***************************************************************************)
(* The state machine: the caller loads rows, then calls operations.        *)
(***************************************************************************)
NoCall == [op |-> "none"]

Init ==
    /\ wo = <<>>
    /\ sensor = <<>>
    /\ costs = <<>>
    /\ budget = <<>>
    /\ vendor = <<>>
    /\ products = <<>>
    /\ trans = <<>>
    /\ prod = <<>>
    /\ ret = NoCall

WorkOrderRows ==
    [EquipmentID : EquipmentIDs, Date : 1..MaxDate,
     MaintenanceType : MaintenanceTypes, DowntimeHours : DowntimeValues,
     TotalCost : CostValues]

GroupByColumns == {"EquipmentID", "Date"}

LoadWorkOrder ==
    /\ ret = NoCall
    /\ Len(wo) < MaxOrders
    /\ \E r \in WorkOrderRows : wo' = Append(wo, r)
    /\ UNCHANGED <<sensor, costs, budget, vendor, products, trans, prod, ret>>

CallMTTR ==
    /\ ret = NoCall
    /\ \E g \in GroupByColumns :
          ret' = [op |-> "calculate_mttr", group_by |-> g,
                  result |-> calculate_mttr(wo, g)]
    /\ UNCHANGED <<wo, sensor, costs, budget, vendor, products, trans, prod>>

CallMTBF ==
    /\ ret = NoCall
    /\ \E g \in GroupByColumns, d \in DayArgs :
          ret' = [op |-> "calculate_mtbf", group_by |-> g, days |-> d,
                  result |-> calculate_mtbf(wo, g, d)]
    /\ UNCHANGED <<wo, sensor, costs, budget, vendor, products, trans, prod>>

CallEquipmentAvailability ==
    /\ ret = NoCall
    /\ \E c \in CountArgs, d \in DayArgs :
          ret' = [op |-> "calculate_equipment_availability",
                  equipment_count |-> c, days |-> d,
                  result |-> calculate_equipment_availability(wo, c, d)]
    /\ UNCHANGED <<wo, sensor, costs, budget, vendor, products, trans, prod>>

CallMaintenanceMix ==
    /\ ret = NoCall
    /\ ret' = [op |-> "calculate_maintenance_mix",
               result |-> calculate_maintenance_mix(wo)]
    /\ UNCHANGED <<wo, sensor, costs, budget, vendor, products, trans, prod>>

CallExecutiveSummary ==
    /\ ret = NoCall
    /\ \E ids \in TablesUpTo(EquipmentIDs, MaxIds),
          t \in {NoTable, SomeTable(trans)},
          p \in {NoTable, SomeTable(products)} :
          ret' = [op |-> "get_executive_summary", equipment_ids |-> ids,
                  df_trans |-> t, df_products |-> p,
                  result |-> get_executive_summary(wo, t, p, ids)]
    /\ UNCHANGED <<wo, sensor, costs, budget, vendor, products, trans, prod>>

\* The caller takes the result; it may then load more rows or call again.
Return ==
    /\ ret # NoCall
    /\ ret' = NoCall
    /\ UNCHANGED <<wo, sensor, costs, budget, vendor, products, trans, prod>>

Next ==
    \/ LoadWorkOrder
    \/ CallMTTR
    \/ CallMTBF
    \/ CallEquipmentAvailability
    \/ CallMaintenanceMix
    \/ CallExecutiveSummary
    \/ Return

Spec == Init /\ [][Next]_vars

SensorRows ==
    [Timestamp : Timestamps, EquipmentID : EquipmentIDs,
     Temperature_C : Temperatures, Vibration_mm_s : Vibrations]

LoadReading ==
    /\ ret = NoCall
    /\ Len(sensor) < MaxReadings
    /\ \E r \in SensorRows : sensor' = Append(sensor, r)
    /\ UNCHANGED <<wo, costs, budget, vendor, products, trans, prod, ret>>

CallFailureProbability ==
    /\ ret = NoCall
    /\ \E w \in WindowArgs :
          ret' = [op |-> "predict_failure_probability", window_hours |-> w,
                  result |-> predict_failure_probability(sensor, w)]
    /\ UNCHANGED <<wo, sensor, costs, budget, vendor, products, trans, prod>>

NextSensor ==
    \/ LoadReading
    \/ CallFailureProbability
    \/ Return

SpecSensor == Init /\ [][NextSensor]_vars

CostRows ==
    [VendorID : VendorIDs, ContractValue : ContractValues,
     ActualPayment : PaymentValues]

LoadCost ==
    /\ ret = NoCall
    /\ Len(costs) < MaxCostRows
    /\ \E r \in CostRows : costs' = Append(costs, r)
    /\ UNCHANGED <<wo, sensor, budget, vendor, products, trans, prod, ret>>

CallPaymentVariance ==
    /\ ret = NoCall
    /\ ret' = [op |-> "calculate_payment_variance",
               result |-> calculate_payment_variance(costs)]
    /\ UNCHANGED <<wo, sensor, costs, budget, vendor, products, trans, prod>>

NextCost ==
    \/ LoadCost
    \/ CallPaymentVariance
    \/ Return

SpecCost == Init /\ [][NextCost]_vars

BudgetRows ==
    [CostCenter : CostCenters, GLAccount : GLAccounts,
     BudgetAmount : BudgetValues, ActualAmount : ActualValues]

LoadBudget ==
    /\ ret = NoCall
    /\ Len(budget) < MaxBudgetRows
    /\ \E r \in BudgetRows : budget' = Append(budget, r)
    /\ UNCHANGED <<wo, sensor, costs, vendor, products, trans, prod, ret>>

CallBudgetAdherence ==
    /\ ret = NoCall
    /\ ret' = [op |-> "calculate_budget_adherence",
               result |-> calculate_budget_adherence(budget)]
    /\ UNCHANGED <<wo, sensor, costs, budget, vendor, products, trans, prod>>

NextBudget ==
    \/ LoadBudget
    \/ CallBudgetAdherence
    \/ Return

SpecBudget == Init /\ [][NextBudget]_vars

\* The cost page: both fact tables and both operations.
NextCostBudget ==
    \/ LoadCost
    \/ CallPaymentVariance
    \/ LoadBudget
    \/ CallBudgetAdherence
    \/ Return

SpecCostBudget == Init /\ [][NextCostBudget]_vars

\* A vendor row; the table's VendorID is the row's position.
VendorRows ==
    [Rating : Ratings, AvgDeliveryDelay : DeliveryDelays,
     QualityScore : QualityScores]

LoadVendor ==
    /\ ret = NoCall
    /\ Len(vendor) < MaxVendors
    /\ \E r \in VendorRows :
          vendor' = Append(vendor,
                       [VendorID |-> Len(vendor) + 1, Rating |-> r.Rating,
                        AvgDeliveryDelay |-> r.AvgDeliveryDelay,
                        QualityScore |-> r.QualityScore])
    /\ UNCHANGED <<wo, sensor, costs, budget, products, trans, prod, ret>>

\* The vendor score computed on the caller's table itself (line 129 without
\* its copy): the table gains the score columns.
CallVendorScore_InPlace ==
    /\ ret = NoCall
    /\ ret' = [op |-> "calculate_vendor_score",
               result |-> calculate_vendor_score(vendor)]
    /\ vendor' = calculate_vendor_score(vendor)
    /\ UNCHANGED <<wo, sensor, costs, budget, products, trans, prod>>

CallVendorScore ==
    /\ ret = NoCall
    /\ ret' = [op |-> "calculate_vendor_score",
               result |-> calculate_vendor_score(vendor)]
    /\ UNCHANGED <<wo, sensor, costs, budget, vendor, products, trans, prod>>

NextVendor ==
    \/ LoadVendor
    \/ CallVendorScore
    \/ Return

SpecVendor == Init /\ [][NextVendor]_vars

(***************************************************************************)
(* The work-order table with its ScheduledDate column: the operations of   *)
(* the maintenance page that look at the plan.                             *)
(***************************************************************************)
EventDates == {2, 3, 4}                \* Date of a scheduled row
PlannedDates == {NoDate, 2, 3}         \* ScheduledDate of a row

ScheduledOrderRows ==
    [EquipmentID : {1}, Date : EventDates,
     MaintenanceType : MaintenanceTypes, DowntimeHours : {2},
     TotalCost : CostValues, ScheduledDate : PlannedDates]

LoadScheduledOrder ==
    /\ ret = NoCall
    /\ Len(wo) < MaxScheduled
    /\ \E r \in ScheduledOrderRows : wo' = Append(wo, r)
    /\ UNCHANGED <<sensor, costs, budget, vendor, products, trans, prod, ret>>

CallScheduleCompliance ==
    /\ ret = NoCall
    /\ ret' = [op |-> "calculate_schedule_compliance",
               result |-> calculate_schedule_compliance(wo)]
    /\ UNCHANGED <<wo, sensor, costs, budget, vendor, products, trans, prod>>

CallPlannedMaintenancePercentage ==
    /\ ret = NoCall
    /\ ret' = [op |-> "calculate_planned_maintenance_percentage",
               result |-> calculate_planned_maintenance_percentage(wo)]
    /\ UNCHANGED <<wo, sensor, costs, budget, vendor, products, trans, prod>>

NextSchedule ==
    \/ LoadScheduledOrder
    \/ CallScheduleCompliance
    \/ CallMaintenanceMix
    \/ CallPlannedMaintenancePercentage
    \/ Return

SpecSchedule == Init /\ [][NextSchedule]_vars

(***************************************************************************)
(* The inventory page: reorder alerts over the products table.             *)
(***************************************************************************)
StockLevels == {0, 7, 30, 31}          \* CurrentStock of a product
ReorderPoints == {7, 20}               \* ReorderPoint of a product
MOQs == {5, 20}                        \* MOQ of a product
UnitCosts == {3}                       \* UnitCost of a product

\* Products are numbered in the order they are loaded: ProductID is a key.
ProductRows ==
    [ProductID : {Len(products) + 1}, CurrentStock : StockLevels,
     ReorderPoint : ReorderPoints, MOQ : MOQs, UnitCost : UnitCosts]

LoadProduct ==
    /\ ret = NoCall
    /\ Len(products) < MaxProducts
    /\ \E p \in ProductRows : products' = Append(products, p)
    /\ UNCHANGED <<wo, sensor, costs, budget, vendor, trans, prod, ret>>

CallReorderAlerts ==
    /\ ret = NoCall
    /\ ret' = [op |-> "get_reorder_alerts",
               result |-> get_reorder_alerts(products)]
    /\ UNCHANGED <<wo, sensor, costs, budget, vendor, products, trans, prod>>

NextReorder ==
    \/ LoadProduct
    \/ CallReorderAlerts
    \/ Return

SpecReorder == Init /\ [][NextReorder]_vars

(***************************************************************************)
(* The inventory page: turnover and stock coverage over the transactions   *)
(* and the products.  The products differ in their stock only.             *)
(***************************************************************************)
ProductIDs == {1, 2}                   \* ProductID of a transaction
TransDates == {1, 3}                   \* Date of a transaction
Quantities == {-1, 1}                  \* Quantity of a transaction
TransTypes == {"Issue", "Receipt"}
TransUnitCosts == {2}                  \* UnitCost of a transaction

StockedProductRows ==
    {p \in ProductRows : p.ReorderPoint = 7 /\ p.MOQ = 5}

TransactionRows ==
    [Date : TransDates, ProductID : ProductIDs, Quantity : Quantities,
     Type : TransTypes, UnitCost : TransUnitCosts]

LoadStockedProduct ==
    /\ ret = NoCall
    /\ Len(products) < MaxProducts
    /\ \E p \in StockedProductRows : products' = Append(products, p)
    /\ UNCHANGED <<wo, sensor, costs, budget, vendor, trans, prod, ret>>

LoadTransaction ==
    /\ ret = NoCall
    /\ Len(trans) < MaxTransactions
    /\ \E t \in TransactionRows : trans' = Append(trans, t)
    /\ UNCHANGED <<wo, sensor, costs, budget, vendor, products, prod, ret>>

CallInventoryTurnover ==
    /\ ret = NoCall
    /\ ret' = [op |-> "calculate_inventory_turnover",
               result |-> calculate_inventory_turnover(trans, products)]
    /\ UNCHANGED <<wo, sensor, costs, budget, vendor, products, trans, prod>>

CallStockCoverage ==
    /\ ret = NoCall
    /\ ret' = [op |-> "calculate_stock_coverage_days",
               result |-> calculate_stock_coverage_days(trans, products)]
    /\ UNCHANGED <<wo, sensor, costs, budget, vendor, products, trans, prod>>

NextInventory ==
    \/ LoadStockedProduct
    \/ LoadTransaction
    \/ CallInventoryTurnover
    \/ CallStockCoverage
    \/ Return

SpecInventory == Init /\ [][NextInventory]_vars

(***************************************************************************)
(* The executive page: the cost forecast over the budget table as a        *)
(* ledger by month.  A new line is booked for the month after the latest   *)
(* one or, late, for the first month.                                      *)
(***************************************************************************)
LedgerAmounts == {1, 2}                \* ActualAmount of a ledger line
MonthsAhead == {0, 1, 3}               \* the months_ahead argument

LedgerDates ==
    IF budget = <<>> THEN {1}
    ELSE {1, MaxOf(Values(budget, "Date")) + 1}

LedgerRows ==
    [Date : LedgerDates, CostCenter : {1}, GLAccount : {1},
     BudgetAmount : {2}, ActualAmount : LedgerAmounts]

LoadLedgerLine ==
    /\ ret = NoCall
    /\ Len(budget) < MaxLedgerLines
    /\ \E r \in LedgerRows : budget' = Append(budget, r)
    /\ UNCHANGED <<wo, sensor, costs, vendor, products, trans, prod, ret>>

CallForecast ==
    /\ ret = NoCall
    /\ \E months_ahead \in MonthsAhead :
          ret' = [op |-> "forecast_maintenance_costs",
                  months_ahead |-> months_ahead,
                  result |-> forecast_maintenance_costs(budget, months_ahead)]
    /\ UNCHANGED <<wo, sensor, costs, budget, vendor, products, trans, prod>>

NextForecast ==
    \/ LoadLedgerLine
    \/ CallForecast
    \/ Return

SpecForecast == Init /\ [][NextForecast]_vars

(***************************************************************************)
(* OEE over the daily production table.  A day produces no part, 6 parts   *)
(* of which 3 or 6 are good, or 30 parts of which 6 are good; a part takes *)
(* an hour or half an hour, or the cycle time is not recorded (0).         *)
(***************************************************************************)
OperatingHourValues == {0, 12, 24}     \* OperatingHours of a day
PartCounts == {<<0, 0>>, <<6, 3>>, <<6, 6>>, <<30, 6>>}  \* total, good parts
CycleTimes == {0, 1800, 3600}          \* IdealCycleTime_s of a day

ProductionRows ==
    {[OperatingHours |-> h, TotalPartsProduced |-> p[1],
      GoodPartsProduced |-> p[2], IdealCycleTime_s |-> c] :
        h \in OperatingHourValues, p \in PartCounts, c \in CycleTimes}

LoadProduction ==
    /\ ret = NoCall
    /\ Len(prod) < MaxProdRows
    /\ \E r \in ProductionRows : prod' = Append(prod, r)
    /\ UNCHANGED <<wo, sensor, costs, budget, vendor, products, trans, ret>>

CallOEE ==
    /\ ret = NoCall
    /\ ret' = [op |-> "calculate_oee", result |-> calculate_oee(prod)]
    /\ UNCHANGED <<wo, sensor, costs, budget, vendor, products, trans, prod>>

NextProduction ==
    \/ LoadProduction
    \/ CallOEE
    \/ Return

SpecProduction == Init /\ [][NextProduction]_vars

(***************************************************************************)
(* The root-cause analysis over work orders that carry a failure code.     *)
(***************************************************************************)
FailureCodes == {NoCode, "A", "B", "C"}

CodedOrderRows ==
    {[MaintenanceType |-> t, FailureCode |-> c] :
        t \in {"Breakdown", "Preventive"}, c \in FailureCodes}

LoadCodedOrder ==
    /\ ret = NoCall
    /\ Len(wo) < MaxCodedOrders
    /\ \E r \in CodedOrderRows : wo' = Append(wo, r)
    /\ UNCHANGED <<sensor, costs, budget, vendor, products, trans, prod, ret>>

CallFailureRootCause ==
    /\ ret = NoCall
    /\ \E res \in get_failure_root_cause(wo) :
          ret' = [op |-> "get_failure_root_cause", result |-> res]
    /\ UNCHANGED <<wo, sensor, costs, budget, vendor, products, trans, prod>>

NextRootCause ==
    \/ LoadCodedOrder
    \/ CallFailureRootCause
    \/ Return

SpecRootCause == Init /\ [][NextRootCause]_vars

(***************************************************************************)
(* The executive summary over work orders of three maintenance types, with *)
(* a transactions table beside them.                                       *)
(***************************************************************************)
SummaryTypes == {"Preventive", "Breakdown", "Inspection"}
SummaryJobs == {<<2, 50>>, <<10, 70>>}  \* DowntimeHours, TotalCost of a row

SummaryOrderRows ==
    {[EquipmentID |-> 1, Date |-> 1, MaintenanceType |-> t,
      DowntimeHours |-> j[1], TotalCost |-> j[2]] :
        t \in SummaryTypes, j \in SummaryJobs}

SummaryTransactionRows ==
    {t \in TransactionRows : t.Date = 1 /\ t.ProductID = 1 /\ t.Quantity = 1}

LoadSummaryOrder ==
    /\ ret = NoCall
    /\ Len(wo) < MaxOrders
    /\ \E r \in SummaryOrderRows : wo' = Append(wo, r)
    /\ UNCHANGED <<sensor, costs, budget, vendor, products, trans, prod, ret>>

LoadSummaryTransaction ==
    /\ ret = NoCall
    /\ Len(trans) < MaxTransactions
    /\ \E t \in SummaryTransactionRows : trans' = Append(trans, t)
    /\ UNCHANGED <<wo, sensor, costs, budget, vendor, products, prod, ret>>

NextSummary ==
    \/ LoadSummaryOrder
    \/ LoadSummaryTransaction
    \/ CallExecutiveSummary
    \/ Return

SpecSummary == Init /\ [][NextSummary]_vars

(***************************************************************************)
(* The stock health: the summary and the reorder alerts over preprocessed  *)
(* products, whose safety stock lies below or above the reorder point.     *)
(***************************************************************************)
SafetyStocks == {5, 25}                \* SafetyStock of a product
StatusStockLevels == {7, 20, 30}       \* CurrentStock of a product

RawProductRows ==
    [ProductID : {Len(products) + 1}, CurrentStock : StatusStockLevels,
     ReorderPoint : ReorderPoints, SafetyStock : SafetyStocks,
     MOQ : {5}, UnitCost : UnitCosts]

LoadProcessedProduct ==
    /\ ret = NoCall
    /\ Len(products) < MaxProducts
    /\ \E p \in RawProductRows : products' = Append(products, process_products(p))
    /\ UNCHANGED <<wo, sensor, costs, budget, vendor, trans, prod, ret>>

NextStock ==
    \/ LoadProcessedProduct
    \/ CallReorderAlerts
    \/ CallExecutiveSummary
    \/ Return

SpecStock == Init /\ [][NextStock]_vars

(***************************************************************************)
(* Calls on work-order tables from which the caller dropped columns.       *)
(***************************************************************************)
CallMTTROnFrame ==
    /\ ret = NoCall
    /\ \E missing \in SUBSET WorkOrderColumns, g \in GroupByColumns :
          ret' = [op |-> "calculate_mttr", missing |-> missing,
                  group_by |-> g,
                  result |-> calculate_mttr_frame(drop(wo, missing), g)]
    /\ UNCHANGED <<wo, sensor, costs, budget, vendor, products, trans, prod>>

CallMaintenanceMixOnFrame ==
    /\ ret = NoCall
    /\ \E missing \in SUBSET WorkOrderColumns :
          ret' = [op |-> "calculate_maintenance_mix", missing |-> missing,
                  result |-> calculate_maintenance_mix_frame(drop(wo, missing))]
    /\ UNCHANGED <<wo, sensor, costs, budget, vendor, products, trans, prod>>

NextSchema ==
    \/ LoadSummaryOrder
    \/ CallMTTROnFrame
    \/ CallMaintenanceMixOnFrame
    \/ Return

SpecSchema == Init /\ [][NextSchema]_vars

(***************************************************************************)
(* The whole core: the caller holds one snapshot of every table and calls  *)
(* the public operations on it in any order.  Every operation works on a   *)
(* copy (.copy() at kpi_calculations.py:28, 57, 128, 195, 231, 276 and     *)
(* advanced_analytics.py:29, 82, 129) or on frames that groupby, merge and *)
(* boolean indexing return, and the two modules keep no module-level       *)
(* state.                                                                  *)
(***************************************************************************)
CoreOrders ==
    {<<>>,
     <<[EquipmentID |-> 1, Date |-> 2, MaintenanceType |-> "Breakdown",
        DowntimeHours |-> 2, TotalCost |-> 50, ScheduledDate |-> NoDate],
       [EquipmentID |-> 1, Date |-> 4, MaintenanceType |-> "Preventive",
        DowntimeHours |-> 2, TotalCost |-> 50, ScheduledDate |-> 2]>>}

CoreReadings ==
    {<<>>,
     <<[Timestamp |-> 30, EquipmentID |-> 1, Temperature_C |-> 100,
        Vibration_mm_s |-> 600]>>}

CoreCosts ==
    {<<>>, <<[VendorID |-> 1, ContractValue |-> 100, ActualPayment |-> 106]>>}

CoreLedgers ==
    {<<>>,
     <<[Date |-> 1, CostCenter |-> 1, GLAccount |-> 1, BudgetAmount |-> 2,
        ActualAmount |-> 1],
       [Date |-> 2, CostCenter |-> 1, GLAccount |-> 1, BudgetAmount |-> 2,
        ActualAmount |-> 2]>>}

CoreVendors ==
    {<<>>,
     <<[VendorID |-> 1, Rating |-> 4555, AvgDeliveryDelay |-> 50,
        QualityScore |-> 8730]>>}

CoreProducts ==
    {<<>>,
     <<[ProductID |-> 1, CurrentStock |-> 7, ReorderPoint |-> 7, MOQ |-> 5,
        UnitCost |-> 3]>>}

CoreTransactions ==
    {<<>>,
     <<[Date |-> 1, ProductID |-> 1, Quantity |-> 1, Type |-> "Issue",
        UnitCost |-> 2]>>}

InitCore ==
    /\ wo \in CoreOrders
    /\ sensor \in CoreReadings
    /\ costs \in CoreCosts
    /\ budget \in CoreLedgers
    /\ vendor \in CoreVendors
    /\ products \in CoreProducts
    /\ trans \in CoreTransactions
    /\ prod = <<>>
    /\ ret = NoCall

NextCore ==
    \/ CallMTTR
    \/ CallMTBF
    \/ CallEquipmentAvailability
    \/ CallScheduleCompliance
    \/ CallMaintenanceMix
    \/ CallInventoryTurnover
    \/ CallStockCoverage
    \/ CallReorderAlerts
    \/ CallPaymentVariance
    \/ CallBudgetAdherence
    \/ CallExecutiveSummary
    \/ CallFailureProbability
    \/ CallForecast
    \/ CallVendorScore
    \/ Return

SpecCore == InitCore /\ [][NextCore]_vars

(***************************************************************************)
(* Vocabulary of the claims about the work-order operations.               *)
(***************************************************************************)
BreakdownOrders == {i \in DOMAIN wo : wo[i].MaintenanceType = "Breakdown"}
PreventiveOrders == {i \in DOMAIN wo : wo[i].MaintenanceType = "Preventive"}

\* The sum of DowntimeHours over the rows whose index is in I.
RECURSIVE DowntimeOver(_)
DowntimeOver(I) ==
    IF I = {} THEN 0
    ELSE LET i == CHOOSE j \in I : TRUE
         IN wo[i].DowntimeHours + DowntimeOver(I \ {i})

\* max(0, x) of a rational
Max0(x) == IF x.n < 0 THEN FracOfInt(0) ELSE x

\* The work-order table without its Preventive rows.
WithoutPreventive == SelectSeq(wo, LAMBDA r : r.MaintenanceType # "Preventive")

(* C1: whenever equipment_count * days * 24 = A > 0, EquipmentAvailability
   returns Availability_Pct = round(max(0, (A - H) / A * 100), 2) with H the
   downtime of ALL work orders, whatever their maintenance type; the result
   depends on equipment_count and days only through their product; 24 h of
   downtime over 240 h gives 90.0 and 10 h + 2 h over 240 h gives 95.0. *)
C1_AvailabilityFormula ==
    ret.op = "calculate_equipment_availability" =>
        LET A == ret.equipment_count * ret.days * 24
            H == DowntimeOver(DOMAIN wo)
            pct == ret.result.Availability_Pct
        IN A > 0 =>
            /\ pct = Round2(Max0(Frac((A - H) * 100, A)))
            /\ \A c \in CountArgs, d \in DayArgs :
                  c * d * 24 = A =>
                      calculate_equipment_availability(wo, c, d).Availability_Pct = pct
            /\ (A = 240 /\ H = 24) => pct = 9000
            /\ (A = 240 /\ H = 12) => pct = 9500

\* C1 witness: 10 h Breakdown + 2 h Preventive, 2 machines x 5 days: 95.0 %.
C1_Witness ==
    /\ ret.op = "calculate_equipment_availability"
    /\ ret.equipment_count = 2 /\ ret.days = 5
    /\ Len(wo) = 2
    /\ wo[1].MaintenanceType = "Breakdown" /\ wo[1].DowntimeHours = 10
    /\ wo[2].MaintenanceType = "Preventive" /\ wo[2].DowntimeHours = 2
    /\ ret.result.Availability_Pct = 9500

(* C2: MTBF returns exactly one row per group key that has a Breakdown
   order, with Failure_Count = the number of the group's Breakdown orders
   and MTBF_Hours = max(0, (days * 24 - H) / F), H the group's Breakdown
   downtime; Preventive orders change no row; no Breakdown order gives an
   empty result; 10 days, 1 failure, 10 h gives 230. *)
C2_MtbfRows ==
    ret.op = "calculate_mtbf" =>
        LET g == ret.group_by
            res == ret.result
            keys == {wo[i][g] : i \in BreakdownOrders}
            grp(k) == {i \in BreakdownOrders : wo[i][g] = k}
        IN /\ Len(res) = Cardinality(keys)
           /\ \A k \in keys :
                 \E i \in DOMAIN res :
                    /\ res[i].key = k
                    /\ \A j \in DOMAIN res : res[j].key = k => j = i
                    /\ res[i].Failure_Count = Cardinality(grp(k))
                    /\ res[i].MTBF_Hours =
                          Max0(Frac(ret.days * 24 - DowntimeOver(grp(k)),
                                    Cardinality(grp(k))))
           /\ res = calculate_mtbf(WithoutPreventive, g, ret.days)
           /\ BreakdownOrders = {} => res = <<>>
           /\ (/\ ret.days = 10
               /\ Cardinality(BreakdownOrders) = 1
               /\ DowntimeOver(BreakdownOrders) = 10)
              => res[1].MTBF_Hours = FracOfInt(230)

\* C2 witness: a Breakdown (10 h) and a Preventive order, days = 10: one row
\* of 230 h; and the clip case days = 1 is reached by C2_WitnessClip.
C2_Witness ==
    /\ ret.op = "calculate_mtbf" /\ ret.days = 10
    /\ Len(wo) = 2
    /\ wo[1].MaintenanceType = "Preventive"
    /\ wo[2].MaintenanceType = "Breakdown" /\ wo[2].DowntimeHours = 10
    /\ Len(ret.result) = 1
    /\ ret.result[1].MTBF_Hours = FracOfInt(230)
    /\ ret.result[1].Failure_Count = 1

C2_WitnessClip ==
    /\ ret.op = "calculate_mtbf" /\ ret.days = 1
    /\ ret.group_by = "EquipmentID"
    /\ Len(wo) = 2
    /\ DowntimeOver(BreakdownOrders) = 34
    /\ Len(ret.result) = 1
    /\ ret.result[1].MTBF_Hours = FracOfInt(0)

\* The period hours the summary reports on: Equipment_Count x Days x 24.
SummaryPeriodHours ==
    ret.result.Equipment_Count * ret.result.Days_In_Period * 24

(* C3, as claimed: ExecutiveSummary reports MTBF_Hours = (equipment_count *
   period_days * 24 - Breakdown downtime) / failure_count (to 2 decimals)
   when there is a Breakdown order, and MTBF_Hours = 0 when there is none. *)
C3_Original ==
    ret.op = "get_executive_summary" =>
        IF BreakdownOrders # {}
        THEN ret.result.MTBF_Hours =
                 Round2(Frac(SummaryPeriodHours - DowntimeOver(BreakdownOrders),
                             Cardinality(BreakdownOrders)))
        ELSE ret.result.MTBF_Hours = 0

(* C3, amended: as claimed when there is a Breakdown order; when there is
   none (the empty set included) MTBF_Hours is the total period hours,
   equipment_count * period_days * 24. *)
C3_MtbfNoFailureIsPeriodHours ==
    ret.op = "get_executive_summary" =>
        IF BreakdownOrders # {}
        THEN ret.result.MTBF_Hours =
                 Round2(Frac(SummaryPeriodHours - DowntimeOver(BreakdownOrders),
                             Cardinality(BreakdownOrders)))
        ELSE ret.result.MTBF_Hours = 100 * SummaryPeriodHours

\* C3 witness: a summary of Preventive orders only reports the period hours.
C3_Witness ==
    /\ ret.op = "get_executive_summary"
    /\ wo # <<>> /\ BreakdownOrders = {}
    /\ ret.result.Equipment_Count = 2 /\ ret.result.Days_In_Period = 2
    /\ ret.result.MTBF_Hours = 9600

(* C4: every rate field of ExecutiveSummary equals the standalone operation
   run with the derived equipment_count and period_days: Availability_Pct
   is EquipmentAvailability's, Preventive_Pct is MaintenanceMix's, and for a
   work-order set on a single equipment (equipment_count 1) with a Breakdown
   order, MTTR_Hours and MTBF_Hours are that equipment's MTTR and MTBF rows
   rounded to 2 decimals, the clip of MTBF at 0 included. *)
C4_SummaryReusesFormulas ==
    ret.op = "get_executive_summary" =>
        LET eq == ret.result.Equipment_Count
            days == ret.result.Days_In_Period
        IN /\ ret.result.Availability_Pct =
                 calculate_equipment_availability(wo, eq, days).Availability_Pct
           /\ ret.result.Preventive_Pct =
                 calculate_maintenance_mix(wo).Preventive_Pct
           /\ (/\ Cardinality({wo[i].EquipmentID : i \in DOMAIN wo}) = 1
               /\ eq = 1
               /\ BreakdownOrders # {})
              => /\ ret.result.MTTR_Hours =
                       Round2(calculate_mttr(wo, "EquipmentID")[1].MTTR_Hours)
                 /\ ret.result.MTBF_Hours =
                       Round2(calculate_mtbf(wo, "EquipmentID", days)[1].MTBF_Hours)

(* C9: ExecutiveSummary derives Days_In_Period = (max date - min date) + 1
   for a non-empty work-order set and 365 for the empty one, Equipment_Count
   = the length of equipment_ids when that list is non-empty, else the
   number of distinct equipment IDs of the work orders (1 for the empty
   set); both are >= 1, so the period hours are never 0. *)
C9_PeriodAndFleet ==
    ret.op = "get_executive_summary" =>
        LET dates == {wo[i].Date : i \in DOMAIN wo}
            equipment == {wo[i].EquipmentID : i \in DOMAIN wo}
            days == ret.result.Days_In_Period
            eq == ret.result.Equipment_Count
        IN /\ wo # <<>> =>
                 \E lo \in dates, hi \in dates :
                    /\ \A d \in dates : lo <= d /\ d <= hi
                    /\ days = (hi - lo) + 1
           /\ wo = <<>> => days = 365
           /\ ret.equipment_ids # <<>> => eq = Len(ret.equipment_ids)
           /\ (ret.equipment_ids = <<>> /\ wo # <<>>) => eq = Cardinality(equipment)
           /\ (ret.equipment_ids = <<>> /\ wo = <<>>) => eq = 1
           /\ eq >= 1 /\ days >= 1
           /\ eq * days * 24 # 0

\* C9 witness: no equipment_ids, two orders on two machines on the same day:
\* a period of 1 day and a fleet of 2.
C9_Witness ==
    /\ ret.op = "get_executive_summary"
    /\ ret.equipment_ids = <<>>
    /\ Len(wo) = 2
    /\ wo[1].EquipmentID # wo[2].EquipmentID
    /\ wo[1].Date = wo[2].Date
    /\ ret.result.Days_In_Period = 1
    /\ ret.result.Equipment_Count = 2

(***************************************************************************)
(* Vocabulary of the claims about FailureProbability.                      *)
(***************************************************************************)
ReadingsOf(eq) == {i \in DOMAIN sensor : sensor[i].EquipmentID = eq}
SensorEquipment == {sensor[i].EquipmentID : i \in DOMAIN sensor}
LatestOver(I) == MaxOf({sensor[i].Timestamp : i \in I})

\* The readings of eq less than window_hours older than the latest reading
\* of the whole table, and of eq itself.
TableWindow(eq) ==
    {i \in ReadingsOf(eq) :
        sensor[i].Timestamp > LatestOver(DOMAIN sensor) - ret.window_hours}
OwnWindow(eq) ==
    {i \in ReadingsOf(eq) :
        sensor[i].Timestamp > LatestOver(ReadingsOf(eq)) - ret.window_hours}

RECURSIVE TemperatureOver(_)
TemperatureOver(I) ==
    IF I = {} THEN 0
    ELSE LET i == CHOOSE j \in I : TRUE
         IN sensor[i].Temperature_C + TemperatureOver(I \ {i})

AvgTempOver(I) == Frac(TemperatureOver(I), Cardinality(I))
MaxVibrationOver(I) == MaxOf({sensor[i].Vibration_mm_s : i \in I})

\* The label the temperature rules give.
TemperatureLabel(avg) ==
    IF FracLess(FracOfInt(95), avg) THEN "Critical Overheating Detected"
    ELSE IF FracLess(FracOfInt(85), avg) THEN "High Operating Temperature"
    ELSE "Normal Operation"

(* C5: when max_vibration > 5.0 the label is the temperature label followed
   by " + Excessive Vibration" if a temperature rule fired (avg_temp > 85)
   and exactly "Excessive Vibration Detected" otherwise; when max_vibration
   <= 5.0 the label is the temperature label ("Normal Operation" when no
   rule fires). *)
C5_VibrationLabel ==
    ret.op = "predict_failure_probability" =>
        \A k \in DOMAIN ret.result :
            LET row == ret.result[k]
                I == TableWindow(row.EquipmentID)
                avg == AvgTempOver(I)
                mv == MaxVibrationOver(I)
            IN IF mv > 500
               THEN IF FracLess(FracOfInt(85), avg)
                    THEN row.Insight =
                             TemperatureLabel(avg) \o " + Excessive Vibration"
                    ELSE row.Insight = "Excessive Vibration Detected"
               ELSE row.Insight = TemperatureLabel(avg)

TempGrid == {FracOfInt(t) : t \in 80..100} \cup {Frac(171, 2), Frac(191, 2)}
VibrationGrid == {300, 350, 351, 400, 500, 501, 600}

(* C6: the score lies in [0, 0.99] (Failure_Probability in [0, 99.0]), and
   it is monotonic non-decreasing in avg_temp with max_vibration fixed and
   in max_vibration with avg_temp fixed: against every other temperature and
   vibration of a grid, and between the rows of one result. *)
C6_ScoreRangeMonotone ==
    ret.op = "predict_failure_probability" =>
        \A k \in DOMAIN ret.result :
            LET row == ret.result[k]
                I == TableWindow(row.EquipmentID)
                avg == AvgTempOver(I)
                mv == MaxVibrationOver(I)
                p == row.Failure_Probability
            IN /\ 0 <= p /\ p <= 990
               /\ \A t \in TempGrid :
                     /\ FracLeq(avg, t) => p <= 10 * failure_heuristics(t, mv).prob
                     /\ FracLeq(t, avg) => 10 * failure_heuristics(t, mv).prob <= p
               /\ \A v \in VibrationGrid :
                     /\ mv <= v => p <= 10 * failure_heuristics(avg, v).prob
                     /\ v <= mv => 10 * failure_heuristics(avg, v).prob <= p
               /\ \A m \in DOMAIN ret.result :
                     LET J == TableWindow(ret.result[m].EquipmentID)
                     IN (\/ /\ mv = MaxVibrationOver(J)
                            /\ FracLeq(avg, AvgTempOver(J))
                         \/ /\ avg = AvgTempOver(J)
                            /\ mv <= MaxVibrationOver(J))
                        => p <= ret.result[m].Failure_Probability

\* C6 witness: two rows with the same vibration; the hotter equipment has
\* the higher score, which is the cap.
C6_Witness ==
    /\ ret.op = "predict_failure_probability"
    /\ Len(ret.result) = 2
    /\ ret.result[1].Max_Vibration = 600 /\ ret.result[2].Max_Vibration = 600
    /\ ret.result[1].Avg_Temp = 950 /\ ret.result[2].Avg_Temp = 1000
    /\ ret.result[1].Failure_Probability = 800
    /\ ret.result[2].Failure_Probability = 990

(* C7, as claimed: the window is anchored per equipment: every equipment
   with a reading gets a row, computed over its readings within
   window_hours of its own latest timestamp. *)
C7_Original ==
    ret.op = "predict_failure_probability" =>
        /\ {ret.result[k].EquipmentID : k \in DOMAIN ret.result} = SensorEquipment
        /\ \A k \in DOMAIN ret.result :
              LET I == OwnWindow(ret.result[k].EquipmentID)
              IN /\ ret.result[k].Avg_Temp = Round1(AvgTempOver(I))
                 /\ ret.result[k].Max_Vibration = MaxVibrationOver(I)

(* C7, amended: the window is anchored on the latest timestamp of the whole
   table: an equipment gets a row (one) iff it has a reading later than that
   timestamp minus window_hours, and its avg_temp and max_vibration are
   computed over exactly those readings. *)
C7_WindowAnchoredOnTable ==
    ret.op = "predict_failure_probability" =>
        /\ {ret.result[k].EquipmentID : k \in DOMAIN ret.result} =
               {eq \in SensorEquipment : TableWindow(eq) # {}}
        /\ \A k, m \in DOMAIN ret.result :
              ret.result[k].EquipmentID = ret.result[m].EquipmentID => k = m
        /\ \A k \in DOMAIN ret.result :
              LET I == TableWindow(ret.result[k].EquipmentID)
              IN /\ ret.result[k].Avg_Temp = Round1(AvgTempOver(I))
                 /\ ret.result[k].Max_Vibration = MaxVibrationOver(I)

\* C7 witness: equipment 2 last reported 30 h before equipment 1; with a
\* window of 24 h it has a reading and no row.
C7_Witness ==
    /\ ret.op = "predict_failure_probability" /\ ret.window_hours = 24
    /\ Len(sensor) = 2
    /\ sensor[1].EquipmentID = 1 /\ sensor[1].Timestamp = 30
    /\ sensor[2].EquipmentID = 2 /\ sensor[2].Timestamp = 0
    /\ Len(ret.result) = 1
    /\ ret.result[1].EquipmentID = 1

(***************************************************************************)
(* Claims about the cost operations.                                       *)
(***************************************************************************)
\* A defined sentinel of a guarded percentage: the number 0 or 100.
IsSentinel(x) ==
    /\ x.kind = "num"
    /\ x.val \in {FracOfInt(0), FracOfInt(100)}

(* C8: every division of the core is guarded and yields a defined sentinel
   when its denominator is 0: PaymentVariance for a vendor whose contract
   values sum to 0 and BudgetAdherence for a group whose budget amounts sum
   to 0 return a sentinel (0 or 100) as Variance_Pct, never an infinite or
   undefined value. *)
C8_DivisionsGuarded ==
    /\ ret.op = "calculate_payment_variance" =>
          \A k \in DOMAIN ret.result :
              ret.result[k].Total_Contract = 0 =>
                  IsSentinel(ret.result[k].Variance_Pct)
    /\ ret.op = "calculate_budget_adherence" =>
          \A k \in DOMAIN ret.result :
              ret.result[k].Total_Budget = 0 =>
                  IsSentinel(ret.result[k].Variance_Pct)

\* C8, the budget half on its own.
C8_BudgetDivisionGuarded ==
    ret.op = "calculate_budget_adherence" =>
        \A k \in DOMAIN ret.result :
            ret.result[k].Total_Budget = 0 =>
                IsSentinel(ret.result[k].Variance_Pct)

(***************************************************************************)
(* Claims about the cost operations.                                       *)
(***************************************************************************)
\* The cost rows of a vendor and the sum of a column over rows of df_costs.
CostsOfVendor(v) == {i \in DOMAIN costs : costs[i].VendorID = v}
RECURSIVE CostSum(_, _)
CostSum(I, col) ==
    IF I = {} THEN 0
    ELSE LET i == CHOOSE j \in I : TRUE
         IN costs[i][col] + CostSum(I \ {i}, col)

\* A percentage above 5 and one below -5: +inf is above, -inf below, NaN
\* neither.
PctAboveFive(x) == x.kind = "inf" \/ (x.kind = "num" /\ x.val.n > 5 * x.val.d)
PctBelowMinusFive(x) ==
    x.kind = "-inf" \/ (x.kind = "num" /\ x.val.n < -5 * x.val.d)

(* C18: payment variance computes per vendor Variance = sum of actual
   payments - sum of contract values and Variance_Pct = Variance / sum of
   contract values * 100, and assigns "Over Budget" iff Variance_Pct > 5,
   "Under Budget" iff Variance_Pct < -5 and "On Track" otherwise, so exactly
   +5 % and exactly -5 % are both "On Track". *)
C18_PaymentVariance ==
    ret.op = "calculate_payment_variance" =>
        /\ {ret.result[k].VendorID : k \in DOMAIN ret.result}
               = {costs[i].VendorID : i \in DOMAIN costs}
        /\ \A k \in DOMAIN ret.result :
              LET r == ret.result[k]
                  I == CostsOfVendor(r.VendorID)
                  contract == CostSum(I, "ContractValue")
                  actual == CostSum(I, "ActualPayment")
              IN /\ r.Variance = actual - contract
                 /\ contract # 0 =>
                        r.Variance_Pct
                            = Num(Frac(100 * (actual - contract), contract))
                 /\ contract = 0 =>
                        r.Variance_Pct = (IF actual > 0 THEN PosInf
                                          ELSE IF actual < 0 THEN NegInf
                                          ELSE NaN)
                 /\ (r.Status = "Over Budget") = PctAboveFive(r.Variance_Pct)
                 /\ (r.Status = "Under Budget")
                        = PctBelowMinusFive(r.Variance_Pct)
                 /\ (r.Status = "On Track")
                        = (/\ ~PctAboveFive(r.Variance_Pct)
                           /\ ~PctBelowMinusFive(r.Variance_Pct))

\* C18 witness: 105 paid on a contract of 100 is exactly +5 %, "On Track";
\* 106 paid is +6 %, "Over Budget".
C18_Witness ==
    /\ ret.op = "calculate_payment_variance"
    /\ Len(ret.result) = 2
    /\ ret.result[1].Variance_Pct = Num(FracOfInt(5))
    /\ ret.result[1].Status = "On Track"
    /\ ret.result[2].Variance_Pct = Num(FracOfInt(6))
    /\ ret.result[2].Status = "Over Budget"

\* C18 witness of the lower threshold: exactly -5 % and -6 %.
C18_WitnessUnder ==
    /\ ret.op = "calculate_payment_variance"
    /\ Len(ret.result) = 2
    /\ ret.result[1].Variance_Pct = Num(FracOfInt(-5))
    /\ ret.result[1].Status = "On Track"
    /\ ret.result[2].Variance_Pct = Num(FracOfInt(-6))
    /\ ret.result[2].Status = "Under Budget"

\* The budget lines of a group and the sum of a column over lines of df_budget.
LinesOfGroup(cc, gl) ==
    {i \in DOMAIN budget : budget[i].CostCenter = cc /\ budget[i].GLAccount = gl}
RECURSIVE BudgetSum(_, _)
BudgetSum(I, col) ==
    IF I = {} THEN 0
    ELSE LET i == CHOOSE j \in I : TRUE
         IN budget[i][col] + BudgetSum(I \ {i}, col)

(* C19: budget adherence returns one row per (cost_center, gl_account) group
   with Adherence_Pct = 100 - |Variance_Pct|, where Variance_Pct = (sum of
   actual - sum of budget) / sum of budget * 100; Adherence_Pct is never
   above 100, equals 100 exactly when sum of actual = sum of budget, and is
   negative (not clamped to 0) whenever |Variance_Pct| > 100. *)
C19_BudgetAdherence ==
    ret.op = "calculate_budget_adherence" =>
        /\ Len(ret.result)
               = Cardinality({<<budget[i].CostCenter, budget[i].GLAccount>> :
                                 i \in DOMAIN budget})
        /\ \A k \in DOMAIN ret.result :
              LET r == ret.result[k]
                  I == LinesOfGroup(r.CostCenter, r.GLAccount)
                  total_budget == BudgetSum(I, "BudgetAmount")
                  total_actual == BudgetSum(I, "ActualAmount")
                  adherence == r.Adherence_Pct
              IN /\ I # {}
                 /\ total_budget # 0 =>
                        adherence
                            = Num(Frac(100 * total_budget
                                         - 100 * Abs(total_actual - total_budget),
                                       total_budget))
                 \* never above 100
                 /\ ~(adherence.kind = "inf")
                 /\ adherence.kind = "num" =>
                        adherence.val.n <= 100 * adherence.val.d
                 \* 100 exactly when the actuals equal the budget
                 /\ (adherence = Num(FracOfInt(100)))
                        = (total_actual = total_budget)
                 \* negative when the variance is above 100 %
                 /\ Abs(total_actual - total_budget) > Abs(total_budget) =>
                        \/ adherence.kind = "-inf"
                        \/ adherence.kind = "num" /\ adherence.val.n < 0

(***************************************************************************)
(* Claims about VendorScoring.                                             *)
(***************************************************************************)
\* min(100, rating * 10 + quality * 0.4 + max(0, 10 - delay) * 2), rounded
\* to 1 decimal, in tenths of a point, for inputs in the units of the table.
ClaimedComposite(rating, quality, delay) ==
    LET late == IF 100 - delay > 0 THEN 100 - delay ELSE 0
        raw == FracAdd(FracAdd(Frac(rating, 100), Frac(4 * quality, 1000)),
                      Frac(2 * late, 10))
        capped == IF FracLess(FracOfInt(100), raw) THEN FracOfInt(100) ELSE raw
    IN Round1(capped)

(* C10: for every vendor with rating in [0, 5], quality_score in [0, 100]
   and delay >= 0, CompositeScore = min(100, rating * 10 + quality * 0.4 +
   max(0, 10 - delay) * 2) rounded to 1 decimal; it lies in [0, 100], is
   monotonic non-decreasing in rating and in quality_score and monotonic
   non-increasing in delay, constant once delay >= 10. *)
C10_CompositeScore ==
    ret.op = "calculate_vendor_score" =>
        /\ Len(ret.result) = Len(vendor)
        /\ \A k \in DOMAIN ret.result :
              LET v == vendor[k]
                  score == ret.result[k].CompositeScore
                  other(r, q, d) ==
                      calculate_vendor_score(
                          <<[VendorID |-> 1, Rating |-> r, QualityScore |-> q,
                             AvgDeliveryDelay |-> d]>>)[1].CompositeScore
              IN /\ score = ClaimedComposite(v.Rating, v.QualityScore,
                                             v.AvgDeliveryDelay)
                 /\ 0 <= score /\ score <= 1000
                 /\ \A r \in Ratings :
                       r >= v.Rating =>
                           other(r, v.QualityScore, v.AvgDeliveryDelay) >= score
                 /\ \A q \in QualityScores :
                       q >= v.QualityScore =>
                           other(v.Rating, q, v.AvgDeliveryDelay) >= score
                 /\ \A d \in DeliveryDelays :
                       /\ d >= v.AvgDeliveryDelay =>
                             other(v.Rating, v.QualityScore, d) <= score
                       /\ (d >= 100 /\ v.AvgDeliveryDelay >= 100) =>
                             other(v.Rating, v.QualityScore, d) = score
                 /\ \A m \in DOMAIN ret.result :
                       (/\ vendor[m].Rating >= v.Rating
                        /\ vendor[m].QualityScore >= v.QualityScore
                        /\ vendor[m].AvgDeliveryDelay <= v.AvgDeliveryDelay)
                       => ret.result[m].CompositeScore >= score

\* C10 witness: two vendors that differ in delay only, 15 and 10 days: both
\* are past the 10 days and score the same 80.5 (45.55 + 34.92 = 80.47).
C10_Witness ==
    /\ ret.op = "calculate_vendor_score"
    /\ Len(vendor) = 2
    /\ vendor[1].Rating = 4555 /\ vendor[2].Rating = 4555
    /\ vendor[1].QualityScore = 8730 /\ vendor[2].QualityScore = 8730
    /\ vendor[1].AvgDeliveryDelay = 150 /\ vendor[2].AvgDeliveryDelay = 100
    /\ ret.result[1].CompositeScore = 805
    /\ ret.result[2].CompositeScore = 805

\* C10 witness of the cap: the best vendor's raw score is 110, reported 100.
C10_WitnessCap ==
    /\ ret.op = "calculate_vendor_score"
    /\ Len(vendor) = 1
    /\ ret.result[1].RawScore = 110000
    /\ ret.result[1].CompositeScore = 1000

\* The tiers from the lowest to the highest.
TierRank(tier) ==
    CASE tier = "At Risk" -> 0
      [] tier = "Standard" -> 1
      [] tier = "Preferred" -> 2
      [] tier = "Strategic Partner" -> 3

(* C11: every vendor gets exactly one tier from its clipped, rounded
   CompositeScore: "Strategic Partner" if the score is >= 90, "Preferred" if
   >= 80, "Standard" if >= 70, "At Risk" otherwise; a higher score never
   yields a lower tier. *)
C11_TierThresholds ==
    ret.op = "calculate_vendor_score" =>
        \A k \in DOMAIN ret.result :
            LET score == ret.result[k].CompositeScore
                tier == ret.result[k].VendorTier
            IN /\ score = ClaimedComposite(vendor[k].Rating,
                                           vendor[k].QualityScore,
                                           vendor[k].AvgDeliveryDelay)
               /\ tier \in {"At Risk", "Standard", "Preferred",
                            "Strategic Partner"}
               /\ (tier = "Strategic Partner") = (score >= 900)
               /\ (tier = "Preferred") = (score >= 800 /\ score < 900)
               /\ (tier = "Standard") = (score >= 700 /\ score < 800)
               /\ (tier = "At Risk") = (score < 700)
               /\ \A m \in DOMAIN ret.result :
                     ret.result[m].CompositeScore >= score =>
                         TierRank(ret.result[m].VendorTier) >= TierRank(tier)

\* C11 witness: a vendor at exactly 80.0 (50 + 20 + 10) is "Preferred", next
\* to one at 79.0 (50 + 20 + 9) that is "Standard".
C11_Witness ==
    /\ ret.op = "calculate_vendor_score"
    /\ Len(vendor) = 2
    /\ ret.result[1].CompositeScore = 800
    /\ ret.result[1].VendorTier = "Preferred"
    /\ ret.result[2].CompositeScore = 790
    /\ ret.result[2].VendorTier = "Standard"

\* C11 witness of the other two thresholds: exactly 90.0 and exactly 70.0.
C11_WitnessEnds ==
    /\ ret.op = "calculate_vendor_score"
    /\ Len(vendor) = 2
    /\ ret.result[1].CompositeScore = 900
    /\ ret.result[1].VendorTier = "Strategic Partner"
    /\ ret.result[2].CompositeScore = 700
    /\ ret.result[2].VendorTier = "Standard"

(* C14: for every work-order set whose maintenance types lie in
   {Preventive, Breakdown}: when the set is non-empty, Preventive_Pct +
   Breakdown_Pct is within 0.1 of 100; when it is empty every field of the
   result (counts, percentages, costs, downtimes) is 0. *)
C14_MixSumsTo100 ==
    ret.op = "calculate_maintenance_mix" =>
        LET mix == ret.result
            sum == mix.Preventive_Pct + mix.Breakdown_Pct
        IN /\ \A k \in DOMAIN wo : wo[k].MaintenanceType \in MaintenanceTypes
           /\ wo # <<>> => (999 <= sum /\ sum <= 1001)
           /\ wo = <<>> =>
                 /\ mix.Preventive_Count = 0 /\ mix.Breakdown_Count = 0
                 /\ mix.Preventive_Pct = 0 /\ mix.Breakdown_Pct = 0
                 /\ mix.Preventive_Cost = 0 /\ mix.Breakdown_Cost = 0
                 /\ mix.Preventive_Downtime = 0 /\ mix.Breakdown_Downtime = 0

\* C14 witness: one preventive order of three: 33.3 % and 66.7 %.
C14_Witness ==
    /\ ret.op = "calculate_maintenance_mix"
    /\ Len(wo) = 3
    /\ ret.result.Preventive_Pct = 333
    /\ ret.result.Breakdown_Pct = 667

\* C14 witness of the empty set.
C14_WitnessEmpty ==
    /\ ret.op = "calculate_maintenance_mix"
    /\ wo = <<>>
    /\ ret.result.Preventive_Pct = 0

\* The orders schedule compliance looks at, and the late ones among them.
ScheduledOrders ==
    {k \in DOMAIN wo : /\ wo[k].MaintenanceType = "Preventive"
                       /\ wo[k].ScheduledDate # NoDate}
LateOrders == {k \in ScheduledOrders : wo[k].Date - wo[k].ScheduledDate > 1}

(* C15: schedule compliance considers only Preventive orders with a
   non-empty scheduled date; such an order is late iff its date is more than
   one day after the scheduled date; OnTime_Count + Late_Count =
   Total_Scheduled; Compliance_Pct = OnTime_Count / Total_Scheduled * 100
   rounded to 1 decimal; when no order qualifies Compliance_Pct = 100.0 and
   all counts are 0. *)
C15_ScheduleCompliance ==
    ret.op = "calculate_schedule_compliance" =>
        LET c == ret.result
        IN /\ c.Total_Scheduled = Cardinality(ScheduledOrders)
           /\ c.Late_Count = Cardinality(LateOrders)
           /\ c.OnTime_Count = Cardinality(ScheduledOrders \ LateOrders)
           /\ c.OnTime_Count + c.Late_Count = c.Total_Scheduled
           /\ ScheduledOrders = {} => c.Compliance_Pct = 1000
           /\ ScheduledOrders # {} =>
                 LET err == c.Compliance_Pct * c.Total_Scheduled
                            - 1000 * c.OnTime_Count
                 IN /\ 2 * err <= c.Total_Scheduled
                    /\ -2 * err <= c.Total_Scheduled

\* C15 witness: three scheduled preventive orders: one done on the day, one
\* exactly a day after (on time), one two days after (late): 66.7 %.
C15_Witness ==
    /\ ret.op = "calculate_schedule_compliance"
    /\ Len(wo) = 3
    /\ ScheduledOrders = {1, 2, 3}
    /\ wo[1].Date = wo[1].ScheduledDate
    /\ wo[2].Date = wo[2].ScheduledDate + 1
    /\ wo[3].Date = wo[3].ScheduledDate + 2
    /\ ret.result.Late_Count = 1
    /\ ret.result.OnTime_Count = 2
    /\ ret.result.Compliance_Pct = 667

\* C15 witness of the default: only breakdown or unscheduled orders.
C15_WitnessNone ==
    /\ ret.op = "calculate_schedule_compliance"
    /\ Len(wo) = 2
    /\ wo[1].MaintenanceType = "Breakdown" /\ wo[1].ScheduledDate # NoDate
    /\ wo[2].MaintenanceType = "Preventive" /\ wo[2].ScheduledDate = NoDate
    /\ ret.result.Compliance_Pct = 1000
    /\ ret.result.Total_Scheduled = 0

(***************************************************************************)
(* Vocabulary of the claims about the inventory operations.                *)
(***************************************************************************)
\* The Issue transactions of a product, and all of them.
IssuesOfProduct(pid) ==
    {i \in DOMAIN trans : trans[i].Type = "Issue" /\ trans[i].ProductID = pid}
AllIssues == {i \in DOMAIN trans : trans[i].Type = "Issue"}

\* The quantity issued of a product: the size of the net issued quantity.
RECURSIVE QuantitySum(_)
QuantitySum(I) ==
    IF I = {} THEN 0
    ELSE LET i == CHOOSE j \in I : TRUE
         IN trans[i].Quantity + QuantitySum(I \ {i})
IssuedQty(pid) == Abs(QuantitySum(IssuesOfProduct(pid)))

\* The value issued over the transactions I: |quantity| * unit_cost each.
RECURSIVE IssuedValue(_)
IssuedValue(I) ==
    IF I = {} THEN 0
    ELSE LET i == CHOOSE j \in I : TRUE
         IN Abs(trans[i].Quantity) * trans[i].UnitCost + IssuedValue(I \ {i})

\* max(1, days between the earliest and the latest Issue date)
DateRangeDays ==
    LET days == {trans[i].Date : i \in AllIssues}
        span == CHOOSE s \in 0..100 :
                    \E a, b \in days : /\ s = b - a
                                       /\ \A c \in days : a <= c /\ c <= b
    IN IF span < 1 THEN 1 ELSE span

(* C12: for every product of the products table, stock coverage reports
   "No Usage" if and only if the product's average daily usage is 0 (no
   Issue transaction, or Issue quantities summing to 0), whatever its
   current stock, 0 included; a product with usage never gets "No Usage". *)
C12_NoUsageIffZeroUsage ==
    ret.op = "calculate_stock_coverage_days" =>
        /\ Len(ret.result) = Len(products)
        /\ \A k \in DOMAIN products :
              LET r == ret.result[k]
              IN /\ r.ProductID = products[k].ProductID
                 /\ (r.Coverage_Status = "No Usage")
                        = (IssuedQty(products[k].ProductID) = 0)
                 /\ (r.Avg_Daily_Usage = FracOfInt(0))
                        = (IssuedQty(products[k].ProductID) = 0)

\* C12 witness: an empty stock that is being used is not "No Usage"; the
\* other product has no issue and is.
C12_Witness ==
    /\ ret.op = "calculate_stock_coverage_days"
    /\ Len(products) = 2
    /\ products[1].CurrentStock = 0
    /\ IssuedQty(1) > 0
    /\ ret.result[1].Coverage_Status = "Critical"
    /\ IssuesOfProduct(2) = {}
    /\ ret.result[2].Coverage_Status = "No Usage"

\* C12 witness of issues that cancel: two issues, net quantity 0.
C12_WitnessCancel ==
    /\ ret.op = "calculate_stock_coverage_days"
    /\ Len(products) = 1
    /\ IssuesOfProduct(1) = {1, 2}
    /\ IssuedQty(1) = 0
    /\ ret.result[1].Coverage_Status = "No Usage"

(* C13: for every product with average daily usage > 0, Coverage_Days =
   current_stock / (total issued quantity / date_range_days), where
   date_range_days = max(1, days between the earliest and the latest Issue
   date over all products); the status is Critical iff Coverage_Days <= 7,
   Warning iff 7 < Coverage_Days <= 30, Healthy iff Coverage_Days > 30. *)
C13_CoverageDays ==
    ret.op = "calculate_stock_coverage_days" =>
        \A k \in DOMAIN products :
            LET r == ret.result[k]
                stock == products[k].CurrentStock
                qty == IssuedQty(products[k].ProductID)
            IN qty > 0 =>
                  /\ r.Avg_Daily_Usage = Frac(qty, DateRangeDays)
                  /\ r.Coverage_Days = Num(Frac(stock * DateRangeDays, qty))
                  /\ (r.Coverage_Status = "Critical")
                         = (stock * DateRangeDays <= 7 * qty)
                  /\ (r.Coverage_Status = "Warning")
                         = (/\ stock * DateRangeDays > 7 * qty
                            /\ stock * DateRangeDays <= 30 * qty)
                  /\ (r.Coverage_Status = "Healthy")
                         = (stock * DateRangeDays > 30 * qty)

\* C13 witness: all issues on one day, so the divisor is 1: a stock of 7 used
\* 1 a day lasts exactly 7 days (Critical), a stock of 31 lasts 31 (Healthy).
C13_Witness ==
    /\ ret.op = "calculate_stock_coverage_days"
    /\ Len(products) = 2
    /\ AllIssues = {1, 2}
    /\ trans[1].Date = trans[2].Date
    /\ products[1].CurrentStock = 7
    /\ ret.result[1].Coverage_Days = Num(FracOfInt(7))
    /\ ret.result[1].Coverage_Status = "Critical"
    /\ products[2].CurrentStock = 31
    /\ ret.result[2].Coverage_Days = Num(FracOfInt(31))
    /\ ret.result[2].Coverage_Status = "Healthy"

\* C13 witness of a longer range: 2 issued over 2 days, a stock of 30 lasts
\* exactly 30 days (Warning).
C13_WitnessRange ==
    /\ ret.op = "calculate_stock_coverage_days"
    /\ Len(products) = 1
    /\ IssuesOfProduct(1) = {1, 2}
    /\ trans[1].Date # trans[2].Date
    /\ IssuedQty(1) = 2
    /\ products[1].CurrentStock = 30
    /\ ret.result[1].Coverage_Days = Num(FracOfInt(30))
    /\ ret.result[1].Coverage_Status = "Warning"

\* The products at or below their reorder point, in table order.
DueProducts == {k \in DOMAIN products :
                    products[k].CurrentStock <= products[k].ReorderPoint}

(* C16: reorder alerts returns exactly the products with current_stock <=
   reorder_point (equality included) and, for each, Shortage_Qty =
   reorder_point - current_stock, Reorder_Qty = max(Shortage_Qty, moq) and
   Estimated_Cost = Reorder_Qty * unit_cost; hence Reorder_Qty >= moq and
   current_stock + Reorder_Qty >= reorder_point for every alert. *)
C16_ReorderAlerts ==
    ret.op = "get_reorder_alerts" =>
        /\ Len(ret.result) = Cardinality(DueProducts)
        /\ {r.ProductID : r \in {ret.result[k] : k \in DOMAIN ret.result}}
               = {products[k].ProductID : k \in DueProducts}
        /\ \A k \in DOMAIN ret.result :
              LET r == ret.result[k]
                  p == products[r.ProductID]
              IN /\ r.CurrentStock = p.CurrentStock
                 /\ r.ReorderPoint = p.ReorderPoint
                 /\ r.Shortage_Qty = p.ReorderPoint - p.CurrentStock
                 /\ r.Reorder_Qty >= r.Shortage_Qty
                 /\ r.Reorder_Qty >= p.MOQ
                 /\ r.Reorder_Qty \in {r.Shortage_Qty, p.MOQ}
                 /\ r.Estimated_Cost = r.Reorder_Qty * p.UnitCost
                 /\ p.CurrentStock + r.Reorder_Qty >= p.ReorderPoint

\* C16 witness: a product exactly at its reorder point orders the minimum
\* quantity; one far below orders its shortage; both are alerts.
C16_Witness ==
    /\ ret.op = "get_reorder_alerts"
    /\ Len(products) = 2
    /\ Len(ret.result) = 2
    /\ products[1].CurrentStock = products[1].ReorderPoint
    /\ ret.result[1].Shortage_Qty = 0
    /\ ret.result[1].Reorder_Qty = products[1].MOQ
    /\ ret.result[2].Shortage_Qty = 20
    /\ products[2].MOQ = 5
    /\ ret.result[2].Reorder_Qty = 20
    /\ ret.result[2].Estimated_Cost = 60

\* C16 witness of a product above its reorder point: no alert for it.
C16_WitnessNoAlert ==
    /\ ret.op = "get_reorder_alerts"
    /\ Len(products) = 2
    /\ products[1].CurrentStock > products[1].ReorderPoint
    /\ Len(ret.result) = 1
    /\ ret.result[1].ProductID = 2

\* The transaction table without its receipts.
WithoutReceipts == SelectSeq(trans, LAMBDA t : t.Type # "Receipt")

(* C17: inventory turnover returns exactly one row per product of the
   products table; a product with no Issue transaction gets Total_Issues = 0
   and Turnover_Ratio = 0; otherwise Turnover_Ratio = (sum of |quantity| *
   unit_cost over the product's Issue transactions) / (current_stock *
   unit_cost) when current_stock * unit_cost > 0 and 0 when it is not;
   Receipt transactions never change any row. *)
C17_InventoryTurnover ==
    ret.op = "calculate_inventory_turnover" =>
        /\ Len(ret.result) = Len(products)
        /\ \A k \in DOMAIN products :
              LET r == ret.result[k]
                  p == products[k]
                  I == IssuesOfProduct(p.ProductID)
                  value == IssuedValue(I)
                  stock_value == p.CurrentStock * p.UnitCost
              IN /\ r.ProductID = p.ProductID
                 /\ I = {} => r.Total_Issues = 0
                              /\ r.Turnover_Ratio = FracOfInt(0)
                 /\ (I # {} /\ stock_value > 0) =>
                        r.Turnover_Ratio = Frac(value, stock_value)
                 /\ (I # {} /\ stock_value <= 0) =>
                        r.Turnover_Ratio = FracOfInt(0)
        /\ ret.result = calculate_inventory_turnover(WithoutReceipts, products)

\* C17 witness: an issue of 1 at a unit cost of 2 against a stock of 7 at a
\* unit cost of 3 turns over 2/21; the second product has a receipt only.
C17_Witness ==
    /\ ret.op = "calculate_inventory_turnover"
    /\ Len(products) = 2
    /\ products[1].CurrentStock = 7
    /\ IssuesOfProduct(1) = {1}
    /\ ret.result[1].Total_Issues = 1
    /\ ret.result[1].Turnover_Ratio = Frac(2, 21)
    /\ Len(trans) = 2
    /\ trans[2].Type = "Receipt" /\ trans[2].ProductID = 2
    /\ ret.result[2].Total_Issues = 0
    /\ ret.result[2].Turnover_Ratio = FracOfInt(0)

\* C17 witness of an empty stock: issues against no inventory value give 0;
\* the other transaction is for a product that is not in the table.
C17_WitnessEmptyStock ==
    /\ ret.op = "calculate_inventory_turnover"
    /\ Len(products) = 1
    /\ products[1].CurrentStock = 0
    /\ IssuesOfProduct(1) # {}
    /\ IssuesOfProduct(2) # {}
    /\ ret.result[1].Total_Issues = 1
    /\ ret.result[1].Turnover_Ratio = FracOfInt(0)

(***************************************************************************)
(* Claims about the cost forecast.                                         *)
(***************************************************************************)
\* The months of the ledger, the total of a month, the trailing 6 months.
LedgerMonths == {budget[i].Date : i \in DOMAIN budget}
MonthTotal(d) ==
    BudgetSum({i \in DOMAIN budget : budget[i].Date = d}, "ActualAmount")
TrailingMonths ==
    {d \in LedgerMonths : Cardinality({e \in LedgerMonths : e > d}) < 6}

\* The sum of the monthly totals over the months D, and of their squares.
RECURSIVE TotalsSum(_)
TotalsSum(D) ==
    IF D = {} THEN 0
    ELSE LET d == CHOOSE e \in D : TRUE
         IN MonthTotal(d) + TotalsSum(D \ {d})
RECURSIVE TotalsSquares(_)
TotalsSquares(D) ==
    IF D = {} THEN 0
    ELSE LET d == CHOOSE e \in D : TRUE
         IN MonthTotal(d) * MonthTotal(d) + TotalsSquares(D \ {d})

\* avg_cost * (1 + 0.02 * i) over the trailing months
ClaimedForecast(i) ==
    Frac(TotalsSum(TrailingMonths) * (50 + i),
         Cardinality(TrailingMonths) * 50)

\* n * (sum of squares) - (sum)^2 over the trailing months: the variance is
\* this over n * n (population) or over n * (n - 1) (sample).
SquaredDeviations ==
    Cardinality(TrailingMonths) * TotalsSquares(TrailingMonths)
        - TotalsSum(TrailingMonths) * TotalsSum(TrailingMonths)

\* The ledger without the lines older than the trailing months.
TrailingLedger == SelectSeq(budget, LAMBDA r : r.Date \in TrailingMonths)

\* The rows are as claimed, with the deviation of the given variance.
ForecastRowsWith(var) ==
    /\ Len(ret.result) = ret.months_ahead
    /\ \A i \in DOMAIN ret.result :
          /\ ret.result[i].ForecastAmount
                 = Num(Frac(Round2(ClaimedForecast(i)), 100))
          /\ ret.result[i].LowerBound
                 = Num(Frac(RoundMinusRoot(ClaimedForecast(i), var), 100))
          /\ ret.result[i].UpperBound
                 = Num(Frac(RoundPlusRoot(ClaimedForecast(i), var), 100))
    /\ ret.result = forecast_maintenance_costs(TrailingLedger, ret.months_ahead)

(* C20 as stated: the forecast returns exactly months_ahead rows; row i has
   ForecastAmount = avg_cost * (1 + 0.02 * i), LowerBound = forecast -
   std_dev and UpperBound = forecast + std_dev, where avg_cost is the mean
   and std_dev the POPULATION standard deviation (divisor n) of the last 6
   monthly totals (of all when fewer exist); older monthly totals never
   change the result. *)
C20_Original ==
    (ret.op = "forecast_maintenance_costs" /\ budget # <<>>) =>
        LET n == Cardinality(TrailingMonths)
        IN ForecastRowsWith(Frac(SquaredDeviations, n * n))

(* C20: the forecast returns exactly months_ahead rows; row i has
   ForecastAmount = avg_cost * (1 + 0.02 * i), LowerBound = forecast -
   std_dev and UpperBound = forecast + std_dev, each rounded to 2 decimals,
   where avg_cost is the mean and std_dev the SAMPLE standard deviation
   (divisor n - 1) of the last 6 monthly totals (of all when fewer exist);
   with a single monthly total std_dev and both bounds are NaN, with no line
   at all the forecast is NaN too; older monthly totals never change the
   result. *)
C20_SampleDeviation ==
    ret.op = "forecast_maintenance_costs" =>
        LET n == Cardinality(TrailingMonths)
        IN /\ n >= 2 => ForecastRowsWith(Frac(SquaredDeviations, n * (n - 1)))
           /\ n < 2 =>
                 /\ Len(ret.result) = ret.months_ahead
                 /\ \A i \in DOMAIN ret.result :
                       /\ ret.result[i].ForecastAmount
                              = (IF n = 0 THEN NaN
                                 ELSE Num(Frac(Round2(ClaimedForecast(i)),
                                               100)))
                       /\ ret.result[i].LowerBound = NaN
                       /\ ret.result[i].UpperBound = NaN

\* C20 witness: seven months, 2 then 1, 1, 1, 1, 1, 2: the first is out of
\* the window, the mean is 7/6 and the sample deviation sqrt(1/6) = 0.408:
\* the first forecast is 1.19, from 0.78 to 1.60 (the population deviation
\* 0.373 would give 0.82 to 1.56).
C20_Witness ==
    /\ ret.op = "forecast_maintenance_costs"
    /\ ret.months_ahead = 3
    /\ Len(ret.result) = 3
    /\ Len(budget) = 7
    /\ Cardinality(LedgerMonths) = 7
    /\ MonthTotal(1) = 2
    /\ TotalsSum(TrailingMonths) = 7
    /\ SquaredDeviations = 5
    /\ ret.result[1].ForecastAmount = Num(Frac(119, 100))
    /\ ret.result[1].LowerBound = Num(Frac(78, 100))
    /\ ret.result[1].UpperBound = Num(Frac(160, 100))

\* C20 witness of a month with two lines, the second booked late: totals 3
\* and 2, mean 2.5, sample deviation 0.707: 2.55, from 1.84 to 3.26.
C20_WitnessLate ==
    /\ ret.op = "forecast_maintenance_costs"
    /\ ret.months_ahead = 1
    /\ Len(budget) = 3
    /\ budget[3].Date = 1
    /\ MonthTotal(1) = 3 /\ MonthTotal(2) = 2
    /\ ret.result[1].Date = 3
    /\ ret.result[1].ForecastAmount = Num(Frac(255, 100))
    /\ ret.result[1].LowerBound = Num(Frac(184, 100))
    /\ ret.result[1].UpperBound = Num(Frac(326, 100))

\* C20 witness of a single month: no deviation, no bounds.
C20_WitnessSingle ==
    /\ ret.op = "forecast_maintenance_costs"
    /\ ret.months_ahead = 1
    /\ Cardinality(LedgerMonths) = 1
    /\ ret.result[1].ForecastAmount # NaN
    /\ ret.result[1].LowerBound = NaN

(***************************************************************************)
(* Further claims about the work-order operations.                         *)
(***************************************************************************)
(* C22: when equipment_count * days * 24 = 0 (equipment_count = 0 or days =
   0), equipment availability returns Availability_Pct = 100.0 with
   Total_Downtime_Hours, Total_Available_Hours and Uptime_Hours all 0,
   whatever downtime the work orders carry. *)
C22_AvailabilityFallback ==
    (/\ ret.op = "calculate_equipment_availability"
     /\ ret.equipment_count * ret.days * 24 = 0) =>
        /\ ret.equipment_count = 0 \/ ret.days = 0
        /\ ret.result.Availability_Pct = 10000
        /\ ret.result.Total_Downtime_Hours = 0
        /\ ret.result.Total_Available_Hours = 0
        /\ ret.result.Uptime_Hours = 0

\* C22 witness: no equipment over 5 days, with 24 h of breakdown downtime.
C22_Witness ==
    /\ ret.op = "calculate_equipment_availability"
    /\ ret.equipment_count = 0 /\ ret.days = 5
    /\ Len(wo) = 1
    /\ wo[1].MaintenanceType = "Breakdown" /\ wo[1].DowntimeHours = 24
    /\ ret.result.Availability_Pct = 10000
    /\ ret.result.Total_Downtime_Hours = 0

\* C22 witness of a period of 0 days for 2 machines.
C22_WitnessNoDays ==
    /\ ret.op = "calculate_equipment_availability"
    /\ ret.equipment_count = 2 /\ ret.days = 0
    /\ Len(wo) = 2
    /\ ret.result.Availability_Pct = 10000
    /\ ret.result.Uptime_Hours = 0

(* C24: MTTR returns exactly one row per group key that has at least one
   Breakdown order, with Breakdown_Count = the number of the group's
   Breakdown orders, Total_Downtime = the sum of their downtime hours and
   MTTR_Hours = Total_Downtime / Breakdown_Count; Preventive orders change
   no row; no Breakdown order gives an empty result. *)
C24_MttrRows ==
    ret.op = "calculate_mttr" =>
        LET g == ret.group_by
            res == ret.result
            keys == {wo[i][g] : i \in BreakdownOrders}
            grp(k) == {i \in BreakdownOrders : wo[i][g] = k}
        IN /\ Len(res) = Cardinality(keys)
           /\ \A k \in keys :
                 \E i \in DOMAIN res :
                    /\ res[i].key = k
                    /\ \A j \in DOMAIN res : res[j].key = k => j = i
                    /\ res[i].Breakdown_Count = Cardinality(grp(k))
                    /\ res[i].Total_Downtime = DowntimeOver(grp(k))
                    /\ res[i].MTTR_Hours =
                          Frac(res[i].Total_Downtime, res[i].Breakdown_Count)
           /\ res = calculate_mttr(WithoutPreventive, g)
           /\ BreakdownOrders = {} => res = <<>>

\* C24 witness: two breakdowns of one machine, 10 h and 24 h: one row, mean
\* 17 h of a total of 34 h.
C24_Witness ==
    /\ ret.op = "calculate_mttr" /\ ret.group_by = "EquipmentID"
    /\ Len(wo) = 2
    /\ BreakdownOrders = {1, 2}
    /\ wo[1].DowntimeHours = 10 /\ wo[2].DowntimeHours = 24
    /\ Len(ret.result) = 1
    /\ ret.result[1].Breakdown_Count = 2
    /\ ret.result[1].Total_Downtime = 34
    /\ ret.result[1].MTTR_Hours = FracOfInt(17)

\* C24 witness of preventive orders only: an empty result.
C24_WitnessEmpty ==
    /\ ret.op = "calculate_mttr"
    /\ Len(wo) = 2
    /\ BreakdownOrders = {}
    /\ ret.result = <<>>


(***************************************************************************)
(* Claims about OEE.                                                       *)
(***************************************************************************)
RECURSIVE ProductionTotal(_, _)
ProductionTotal(I, field) ==
    IF I = {} THEN 0
    ELSE LET i == CHOOSE j \in I : TRUE
         IN prod[i][field] + ProductionTotal(I \ {i}, field)

FracMin1(x) == IF FracLeq(x, FracOfInt(1)) THEN x ELSE FracOfInt(1)

(* C21: OEE on a non-empty production table returns Availability =
   sum of operating hours / (record count * 24), Performance =
   min(1, total parts / potential parts) with potential parts =
   operating hours * 3600 / mean ideal cycle time, and 0 when the mean
   cycle time or the potential is 0, Quality = good parts / total parts, and
   0 without parts, OEE_Pct = the product of the three * 100, each reported
   as a percentage rounded to 2 decimals; the empty table gives 0 in all
   four fields; with operating hours <= 24 and good parts <= total parts in
   every record, OEE_Pct lies in [0, 100] and exceeds no component. *)
C21_OEE ==
    ret.op = "calculate_oee" =>
        LET n == Len(prod)
            res == ret.result
            hours == ProductionTotal(DOMAIN prod, "OperatingHours")
            parts == ProductionTotal(DOMAIN prod, "TotalPartsProduced")
            good == ProductionTotal(DOMAIN prod, "GoodPartsProduced")
            cycle == ProductionTotal(DOMAIN prod, "IdealCycleTime_s")
            A == Frac(hours, n * 24)
            P == IF cycle = 0 \/ hours = 0 THEN FracOfInt(0)
                 ELSE FracMin1(Frac(parts * cycle, hours * 3600 * n))
            Q == IF parts = 0 THEN FracOfInt(0) ELSE Frac(good, parts)
            pct(x) == Round2(Frac(100 * x.n, x.d))
        IN IF n = 0
           THEN res = [OEE_Pct |-> 0, Availability_Component |-> 0,
                       Performance_Component |-> 0, Quality_Component |-> 0]
           ELSE /\ res.Availability_Component = pct(A)
                /\ res.Performance_Component = pct(P)
                /\ res.Quality_Component = pct(Q)
                /\ res.OEE_Pct =
                      Round2(Frac(100 * A.n * P.n * Q.n, A.d * P.d * Q.d))
                /\ (\A i \in DOMAIN prod :
                       /\ prod[i].OperatingHours <= 24
                       /\ prod[i].GoodPartsProduced
                              <= prod[i].TotalPartsProduced)
                   => /\ res.OEE_Pct >= 0 /\ res.OEE_Pct <= 10000
                      /\ res.OEE_Pct <= res.Availability_Component
                      /\ res.OEE_Pct <= res.Performance_Component
                      /\ res.OEE_Pct <= res.Quality_Component

\* C21 witness: 12 h of a day at one part an hour, 30 parts counted, 6 of
\* them good: performance capped at 100 %, availability 50 %, quality 20 %,
\* OEE 10 %.
C21_Witness ==
    /\ ret.op = "calculate_oee"
    /\ Len(prod) = 1
    /\ prod[1].OperatingHours = 12 /\ prod[1].IdealCycleTime_s = 3600
    /\ prod[1].TotalPartsProduced = 30 /\ prod[1].GoodPartsProduced = 6
    /\ ret.result = [OEE_Pct |-> 1000, Availability_Component |-> 5000,
                     Performance_Component |-> 10000,
                     Quality_Component |-> 2000]

\* C21 witness of a day without a recorded cycle time: performance and OEE 0.
C21_WitnessNoCycle ==
    /\ ret.op = "calculate_oee"
    /\ Len(prod) = 1
    /\ prod[1].OperatingHours = 24 /\ prod[1].IdealCycleTime_s = 0
    /\ prod[1].TotalPartsProduced = 6 /\ prod[1].GoodPartsProduced = 3
    /\ ret.result = [OEE_Pct |-> 0, Availability_Component |-> 10000,
                     Performance_Component |-> 0,
                     Quality_Component |-> 5000]

\* C21 witness of the empty production table.
C21_WitnessEmpty ==
    /\ ret.op = "calculate_oee"
    /\ prod = <<>>
    /\ ret.result.OEE_Pct = 0 /\ ret.result.Quality_Component = 0


(***************************************************************************)
(* Claims about the planned share of the work orders.                      *)
(***************************************************************************)
(* C25: PlannedMaintenancePercentage returns the number of Preventive work
   orders / the number of work orders * 100 rounded to 2 decimals for every
   non-empty work-order set, a value in [0, 100], and 100.0 for the empty
   set. *)
C25_PlannedPercentage ==
    ret.op = "calculate_planned_maintenance_percentage" =>
        IF wo = <<>>
        THEN ret.result = 10000
        ELSE /\ ret.result =
                   Round2(Frac(100 * Cardinality(PreventiveOrders), Len(wo)))
             /\ ret.result >= 0 /\ ret.result <= 10000

\* C25 witness: one preventive order of three: 33.33 %.
C25_Witness ==
    /\ ret.op = "calculate_planned_maintenance_percentage"
    /\ Len(wo) = 3
    /\ Cardinality(PreventiveOrders) = 1
    /\ ret.result = 3333

\* C25 witness of the empty work-order set: 100 %.
C25_WitnessEmpty ==
    /\ ret.op = "calculate_planned_maintenance_percentage"
    /\ wo = <<>>
    /\ ret.result = 10000


(***************************************************************************)
(* Claims about the failure root causes.                                   *)
(***************************************************************************)
\* The Breakdown orders that carry the failure code c.
BreakdownsWithCode(c) == {i \in BreakdownOrders : wo[i].FailureCode = c}

RECURSIVE CountSum(_)
CountSum(res) ==
    IF res = <<>> THEN 0 ELSE Head(res).count + CountSum(Tail(res))

(* C23: FailureRootCause returns, for each failure code occurring on at
   least one Breakdown order, the number of Breakdown orders carrying it,
   listed in non-increasing order of count; Preventive orders contribute to
   no count, the counts sum to the number of Breakdown orders that have a
   failure code, and a set with no Breakdown order yields an empty result
   (codes A, A, A, B, C give A: 3 first, then B: 1 and C: 1). *)
C23_FailureRootCause ==
    ret.op = "get_failure_root_cause" =>
        LET res == ret.result
            occurring == {wo[i].FailureCode : i \in BreakdownOrders} \ {NoCode}
        IN /\ {res[i].FailureCode : i \in DOMAIN res} = occurring
           /\ Len(res) = Cardinality(occurring)
           /\ \A i \in DOMAIN res :
                 res[i].count = Cardinality(BreakdownsWithCode(res[i].FailureCode))
           /\ \A i, j \in DOMAIN res : i < j => res[i].count >= res[j].count
           /\ res \in get_failure_root_cause(WithoutPreventive)
           /\ CountSum(res) =
                 Cardinality({i \in BreakdownOrders : wo[i].FailureCode # NoCode})
           /\ BreakdownOrders = {} => res = <<>>

\* C23 witness: five breakdowns with the codes A, A, A, B, C.
C23_Witness ==
    /\ ret.op = "get_failure_root_cause"
    /\ Len(wo) = 5
    /\ BreakdownOrders = 1..5
    /\ [i \in 1..5 |-> wo[i].FailureCode] = <<"A", "A", "A", "B", "C">>
    /\ Len(ret.result) = 3
    /\ ret.result[1] = [FailureCode |-> "A", count |-> 3]
    /\ {ret.result[2], ret.result[3]} =
          {[FailureCode |-> "B", count |-> 1], [FailureCode |-> "C", count |-> 1]}

\* C23 witness of a preventive order with a code beside a breakdown without
\* one: nothing is counted.
C23_WitnessPreventive ==
    /\ ret.op = "get_failure_root_cause"
    /\ Len(wo) = 2
    /\ wo[1] = [MaintenanceType |-> "Preventive", FailureCode |-> "A"]
    /\ wo[2] = [MaintenanceType |-> "Breakdown", FailureCode |-> NoCode]
    /\ ret.result = <<>>


(***************************************************************************)
(* Claims about the score values and the status of FailureProbability.     *)
(***************************************************************************)
(* C28: the capped score takes only the values 0, 0.2, 0.3, 0.5, 0.6, 0.8
   and 0.99, and Status is "Critical" if and only if (avg_temp > 95 and
   max_vibration > 3.5) or (avg_temp > 85 and max_vibration > 5.0); no
   single rule firing alone yields "Critical": avg_temp > 95 with
   max_vibration <= 3.5 gives score 0.6 and Status "Warning" with the label
   "Critical Overheating Detected", and 85 < avg_temp <= 95 with
   max_vibration <= 3.5 gives score 0.3 and Status "Healthy" with the label
   "High Operating Temperature". *)
C28_ScoreValuesAndStatus ==
    ret.op = "predict_failure_probability" =>
        \A k \in DOMAIN ret.result :
            LET row == ret.result[k]
                I == TableWindow(row.EquipmentID)
                avg == AvgTempOver(I)
                mv == MaxVibrationOver(I)
                over95 == FracLess(FracOfInt(95), avg)
                over85 == FracLess(FracOfInt(85), avg)
            IN /\ row.Failure_Probability \in {0, 200, 300, 500, 600, 800, 990}
               /\ row.Status = "Critical" <=>
                     ((over95 /\ mv > 350) \/ (over85 /\ mv > 500))
               /\ (over95 /\ mv <= 350) =>
                     /\ row.Failure_Probability = 600
                     /\ row.Status = "Warning"
                     /\ row.Insight = "Critical Overheating Detected"
               /\ (over85 /\ ~over95 /\ mv <= 350) =>
                     /\ row.Failure_Probability = 300
                     /\ row.Status = "Healthy"
                     /\ row.Insight = "High Operating Temperature"

\* C28 witness: 100 degrees at a vibration of 3.5: score 0.6, a warning.
C28_Witness ==
    /\ ret.op = "predict_failure_probability"
    /\ Len(sensor) = 1
    /\ sensor[1].Temperature_C = 100 /\ sensor[1].Vibration_mm_s = 350
    /\ Len(ret.result) = 1
    /\ ret.result[1].Failure_Probability = 600
    /\ ret.result[1].Status = "Warning"
    /\ ret.result[1].Insight = "Critical Overheating Detected"

\* C28 witness: 95 degrees at a vibration of 3.5: score 0.3, healthy.
C28_WitnessHealthy ==
    /\ ret.op = "predict_failure_probability"
    /\ Len(sensor) = 1
    /\ sensor[1].Temperature_C = 95 /\ sensor[1].Vibration_mm_s = 350
    /\ Len(ret.result) = 1
    /\ ret.result[1].Failure_Probability = 300
    /\ ret.result[1].Status = "Healthy"
    /\ ret.result[1].Insight = "High Operating Temperature"

\* C28 witness: 95 degrees at a vibration of 6.0: two rules, score 0.8,
\* critical.
C28_WitnessCritical ==
    /\ ret.op = "predict_failure_probability"
    /\ Len(sensor) = 1
    /\ sensor[1].Temperature_C = 95 /\ sensor[1].Vibration_mm_s = 600
    /\ Len(ret.result) = 1
    /\ ret.result[1].Failure_Probability = 800
    /\ ret.result[1].Status = "Critical"


(***************************************************************************)
(* Claims about the consistency of the executive summary.                  *)
(***************************************************************************)
RECURSIVE CostOver(_)
CostOver(I) ==
    IF I = {} THEN 0
    ELSE LET i == CHOOSE j \in I : TRUE
         IN wo[i].TotalCost + CostOver(I \ {i})

\* Transactions tables the summary could have been given instead.
OtherTransactions ==
    {NoTable, SomeTable(<<>>), SomeTable(trans)}

(* C29: for every work-order set whose maintenance types all lie in
   {Preventive, Breakdown}, the ExecutiveSummary result is consistent:
   Preventive_Cost + Breakdown_Cost = Total_Maintenance_Cost,
   Planned_Downtime + Unplanned_Downtime = Total_Downtime (which is rounded
   to 2 decimals), Breakdown_Count <= Total_Work_Orders; and the result does
   not depend on the transactions argument. *)
C29_SummaryConsistent ==
    ret.op = "get_executive_summary" =>
        LET res == ret.result
        IN /\ (\A i \in DOMAIN wo :
                  wo[i].MaintenanceType \in {"Preventive", "Breakdown"})
              => /\ res.Preventive_Cost + res.Breakdown_Cost =
                       res.Total_Maintenance_Cost
                 /\ res.Total_Maintenance_Cost = CostOver(DOMAIN wo)
                 /\ Round2(FracOfInt(res.Planned_Downtime
                                         + res.Unplanned_Downtime)) =
                       res.Total_Downtime
                 /\ res.Breakdown_Count <= res.Total_Work_Orders
           /\ \A t \in OtherTransactions :
                 get_executive_summary(wo, t, ret.df_products,
                                       ret.equipment_ids) = res

\* C29 witness: a preventive order of 50 and 2 h and a breakdown of 70 and
\* 10 h, summarised with one transaction in the transactions table.
C29_Witness ==
    /\ ret.op = "get_executive_summary"
    /\ Len(wo) = 2
    /\ wo[1].MaintenanceType = "Preventive" /\ wo[2].MaintenanceType = "Breakdown"
    /\ wo[1].TotalCost = 50 /\ wo[2].TotalCost = 70
    /\ wo[1].DowntimeHours = 2 /\ wo[2].DowntimeHours = 10
    /\ ret.df_trans = SomeTable(trans) /\ Len(trans) = 1
    /\ ret.result.Preventive_Cost = 50 /\ ret.result.Breakdown_Cost = 70
    /\ ret.result.Total_Maintenance_Cost = 120
    /\ ret.result.Planned_Downtime = 2 /\ ret.result.Unplanned_Downtime = 10
    /\ ret.result.Total_Downtime = 1200
    /\ ret.result.Breakdown_Count = 1 /\ ret.result.Total_Work_Orders = 2

\* C29 witness of a third maintenance type: the costs by type do not add up
\* to the total.
C29_WitnessThirdType ==
    /\ ret.op = "get_executive_summary"
    /\ Len(wo) = 2
    /\ wo[1].MaintenanceType = "Inspection" /\ wo[2].MaintenanceType = "Breakdown"
    /\ ret.result.Preventive_Cost + ret.result.Breakdown_Cost
           < ret.result.Total_Maintenance_Cost


(***************************************************************************)
(* Claims about the stock health.                                          *)
(***************************************************************************)
ProductsWithStatus(s) ==
    {i \in DOMAIN products : products[i]["Stock Status"] = s}

(* C30: for every products table, ExecutiveSummary's Critical_Stock_Items
   equals the number of rows ReorderAlerts returns for that table and the
   number of products whose derived stock status is "Critical"
   (current stock <= reorder point, which takes precedence over the
   safety-stock test); products whose status is "Stockout Risk" (reorder
   point < current stock <= safety stock) are never counted, and a missing
   products table gives 0. *)
C30_CriticalStockItems ==
    /\ ret.op = "get_executive_summary" =>
          IF ret.df_products.isNone
          THEN ret.result.Critical_Stock_Items = 0
          ELSE /\ ret.result.Critical_Stock_Items =
                     Len(get_reorder_alerts(ret.df_products.rows))
               /\ ret.result.Critical_Stock_Items =
                     Cardinality(ProductsWithStatus("Critical"))
    /\ ret.op = "get_reorder_alerts" =>
          /\ Len(ret.result) = Cardinality(ProductsWithStatus("Critical"))
          /\ \A k \in DOMAIN ret.result :
                ret.result[k]["Stock Status"] = "Critical"
          /\ Len(ret.result) = critical_stock(SomeTable(products))
    /\ \A i \in DOMAIN products :
          /\ products[i]["Stock Status"] = "Critical" <=>
                products[i].CurrentStock <= products[i].ReorderPoint
          /\ products[i]["Stock Status"] = "Stockout Risk" <=>
                /\ products[i].ReorderPoint < products[i].CurrentStock
                /\ products[i].CurrentStock <= products[i].SafetyStock
          /\ products[i]["Stock Status"] = "Stockout Risk" =>
                products[i].SafetyStock > products[i].ReorderPoint

\* C30 witness: a product at its reorder point and below its safety stock
\* (Critical) and one between the two (Stockout Risk): the summary counts 1.
C30_Witness ==
    /\ ret.op = "get_executive_summary"
    /\ ~ret.df_products.isNone
    /\ Len(products) = 2
    /\ products[1].CurrentStock = 7 /\ products[1].ReorderPoint = 7
    /\ products[1].SafetyStock = 25
    /\ products[1]["Stock Status"] = "Critical"
    /\ products[2].CurrentStock = 20 /\ products[2].ReorderPoint = 7
    /\ products[2].SafetyStock = 25
    /\ products[2]["Stock Status"] = "Stockout Risk"
    /\ ret.result.Critical_Stock_Items = 1

\* C30 witness of the alerts on the same kind of table: one row.
C30_WitnessAlerts ==
    /\ ret.op = "get_reorder_alerts"
    /\ Len(products) = 2
    /\ products[1]["Stock Status"] = "Stockout Risk"
    /\ products[2]["Stock Status"] = "Critical"
    /\ Len(ret.result) = 1
    /\ ret.result[1].ProductID = 2

\* C30 witness of a summary without a products table, while there are
\* critical products.
C30_WitnessNoTable ==
    /\ ret.op = "get_executive_summary"
    /\ ret.df_products.isNone
    /\ ProductsWithStatus("Critical") # {}
    /\ ret.result.Critical_Stock_Items = 0


(***************************************************************************)
(* Claims about tables that lack a field.                                  *)
(***************************************************************************)
\* The fields an operation requires of the work-order table.
RequiredFields ==
    IF ret.op = "calculate_mttr"
    THEN {"MaintenanceType", ret.group_by, "DowntimeHours", "WorkOrderID"}
    ELSE {"MaintenanceType", "TotalCost", "DowntimeHours"}

\* The documented result on a well-formed table.
DocumentedResult ==
    IF ret.op = "calculate_mttr" THEN calculate_mttr(wo, ret.group_by)
    ELSE calculate_maintenance_mix(wo)

FrameCall ==
    /\ ret.op \in {"calculate_mttr", "calculate_maintenance_mix"}
    /\ "missing" \in DOMAIN ret

(* C27, as claimed: when the table lacks a field the operation requires,
   the operation fails with an error raised where the field is first
   accessed, the error reaches the caller and no result is returned; a
   well-formed table, empty or not, never raises and yields the documented
   result. *)
C27_Original ==
    FrameCall =>
        IF ret.missing \cap RequiredFields # {}
        THEN /\ ret.result.raised
             /\ "value" \notin DOMAIN ret.result
        ELSE ret.result = Returned(DocumentedResult)

(* C27, amended: the error is the KeyError of the table lookup (the code
   has no error type of its own), raised only when the execution reaches an
   access of a missing field.  MaintenanceMix reads MaintenanceType,
   TotalCost and DowntimeHours on every table and fails on the first one
   missing.  MTTR reads MaintenanceType first; when the table has no
   Breakdown order it returns its empty result without reading the group
   column, DowntimeHours or WorkOrderID, so a table lacking only those does
   not fail; otherwise it fails on the group column, then on DowntimeHours
   and WorkOrderID.  A raised error carries no result; a well-formed table,
   empty or not, never raises and yields the documented result. *)
C27_FailsWhereAccessed ==
    FrameCall =>
        LET res == ret.result
            lacks(c) == c \in ret.missing
            raises(K) == /\ res = KeyError(K)
                         /\ "value" \notin DOMAIN res
        IN /\ ret.op = "calculate_maintenance_mix" =>
                 IF lacks("MaintenanceType") THEN raises({"MaintenanceType"})
                 ELSE IF lacks("TotalCost") THEN raises({"TotalCost"})
                 ELSE IF lacks("DowntimeHours") THEN raises({"DowntimeHours"})
                 ELSE res = Returned(DocumentedResult)
           /\ ret.op = "calculate_mttr" =>
                 IF lacks("MaintenanceType") THEN raises({"MaintenanceType"})
                 ELSE IF BreakdownOrders = {} THEN res = Returned(<<>>)
                 ELSE IF lacks(ret.group_by) THEN raises({ret.group_by})
                 ELSE IF ret.missing \cap {"DowntimeHours", "WorkOrderID"} # {}
                 THEN raises(ret.missing \cap {"DowntimeHours", "WorkOrderID"})
                 ELSE res = Returned(DocumentedResult)
           /\ ret.missing \cap RequiredFields = {} =>
                 res = Returned(DocumentedResult)

\* C27 witness: MTTR of a Breakdown order in a table without DowntimeHours
\* fails.
C27_Witness ==
    /\ FrameCall /\ ret.op = "calculate_mttr"
    /\ ret.missing = {"DowntimeHours"}
    /\ BreakdownOrders # {}
    /\ ret.result = KeyError({"DowntimeHours"})

\* C27 witness: MTTR of Preventive orders in a table without DowntimeHours
\* returns its empty result.
C27_WitnessNoBreakdown ==
    /\ FrameCall /\ ret.op = "calculate_mttr"
    /\ ret.missing = {"DowntimeHours"}
    /\ Len(wo) = 2 /\ BreakdownOrders = {}
    /\ ret.result = Returned(<<>>)

\* C27 witness: MaintenanceMix of an empty table without TotalCost fails.
C27_WitnessMix ==
    /\ FrameCall /\ ret.op = "calculate_maintenance_mix"
    /\ ret.missing = {"TotalCost"}
    /\ wo = <<>>
    /\ ret.result = KeyError({"TotalCost"})

\* C27 witness: a well-formed empty table yields the sentinels.
C27_WitnessEmpty ==
    /\ FrameCall /\ ret.op = "calculate_maintenance_mix"
    /\ ret.missing = {}
    /\ wo = <<>>
    /\ ~ret.result.raised
    /\ ret.result.value.Preventive_Pct = 0


(***************************************************************************)
(* Claims about the core as a whole.                                       *)
(***************************************************************************)
\* The tables the caller owns.
CallerTables == <<wo, sensor, costs, budget, vendor, products, trans, prod>>

\* The result in the caller's hands is the one the operation returns when
\* it is run alone on the caller's tables with the same arguments.
ResultRunAlone ==
    CASE ret.op = "calculate_mttr" ->
            ret.result = calculate_mttr(wo, ret.group_by)
      [] ret.op = "calculate_mtbf" ->
            ret.result = calculate_mtbf(wo, ret.group_by, ret.days)
      [] ret.op = "calculate_equipment_availability" ->
            ret.result = calculate_equipment_availability(
                             wo, ret.equipment_count, ret.days)
      [] ret.op = "calculate_schedule_compliance" ->
            ret.result = calculate_schedule_compliance(wo)
      [] ret.op = "calculate_maintenance_mix" ->
            ret.result = calculate_maintenance_mix(wo)
      [] ret.op = "calculate_inventory_turnover" ->
            ret.result = calculate_inventory_turnover(trans, products)
      [] ret.op = "calculate_stock_coverage_days" ->
            ret.result = calculate_stock_coverage_days(trans, products)
      [] ret.op = "get_reorder_alerts" ->
            ret.result = get_reorder_alerts(products)
      [] ret.op = "calculate_payment_variance" ->
            ret.result = calculate_payment_variance(costs)
      [] ret.op = "calculate_budget_adherence" ->
            ret.result = calculate_budget_adherence(budget)
      [] ret.op = "get_executive_summary" ->
            ret.result = get_executive_summary(
                             wo,
                             IF ret.df_trans.isNone THEN NoTable
                             ELSE SomeTable(trans),
                             IF ret.df_products.isNone THEN NoTable
                             ELSE SomeTable(products),
                             ret.equipment_ids)
      [] ret.op = "predict_failure_probability" ->
            ret.result = predict_failure_probability(sensor, ret.window_hours)
      [] ret.op = "forecast_maintenance_costs" ->
            ret.result = forecast_maintenance_costs(budget, ret.months_ahead)
      [] ret.op = "calculate_vendor_score" ->
            ret.result = calculate_vendor_score(vendor)
      [] OTHER -> ret = NoCall

(* C26: the core is stateless and leaves its inputs unchanged: over any
   sequence of calls to the public KPI operations, every step leaves every
   caller-owned table with the same rows, columns and values, and every
   call returns the result it returns when run alone on the same inputs. *)
C26_StatelessCore ==
    /\ [][CallerTables' = CallerTables]_vars
    /\ []ResultRunAlone

\* C26 witness: the vendor scores are in the caller's hands, computed from a
\* vendor table that still has its four columns, beside a work-order table
\* of two rows.
C26_Witness ==
    /\ ret.op = "calculate_vendor_score"
    /\ Len(vendor) = 1
    /\ DOMAIN vendor[1] =
          {"VendorID", "Rating", "AvgDeliveryDelay", "QualityScore"}
    /\ Len(ret.result) = 1
    /\ "CompositeScore" \in DOMAIN ret.result[1]
    /\ Len(wo) = 2

\* C26 witness: the schedule compliance of the two work orders, whose rows
\* have no IsLate column.
C26_WitnessSchedule ==
    /\ ret.op = "calculate_schedule_compliance"
    /\ Len(wo) = 2
    /\ ret.result.Total_Scheduled = 1 /\ ret.result.Late_Count = 1
    /\ \A i \in DOMAIN wo : "IsLate" \notin DOMAIN wo[i]

====
